---------------------------- MODULE Spec2Model ----------------------------
(***************************************************************************)
(* Model of the Go API of eth_step_by_step: the relay failover client and  *)
(* its positive/negative caches (relay.go), the snapshot and beacon caches *)
(* (snapshot.go, beacon.go), the SourceHealth record (data_source.go) and  *)
(* the rolling mempool buffer of the push watcher (mempool_ws.go).         *)
(*                                                                         *)
(* Time is a discrete clock `now` counted in ticks.  Durations of the code *)
(* (TTLs, budget, health window) are given in ticks and keep the order     *)
(* they have in the code: budget < error TTL < TTL.                        *)
(***************************************************************************)
EXTENDS Integers, Sequences, FiniteSets, TLC

VARIABLES
    now,            \* the wall clock, time.Now()
    health,         \* the four BaseDataSource records (health.go:32-45)
    sourcesReady,   \* whether initHealthSources has set the four pointers
    event,          \* history: the last operation on a health record
    memo,           \* the four cache maps: relayMemo, relayFailMemo,
                    \* snapshotMemo and beaconMemo, each key -> entry
    pc,             \* position of each request goroutine
    local,          \* locals of the call each goroutine is in
    ret,            \* what the step that led here returned, if a call
                    \* returned in it
    lastSet,        \* history: the last set of each (cache, key)
    mempoolData,    \* mempool_ws.go:37  the shared MempoolData
    resolved,       \* history: every resolved pending tx, newest first
    watcher,        \* the mempool watcher: its mode, its position in
                    \* startMempoolSubscription/dialAndConsume, its locals
    heap,           \* the backing arrays of the PendingTx slices
    backing,        \* the array mempoolData.PendingTxs points into
    mempoolMutex,   \* mempool_ws.go:38  who holds the RWMutex
    held,           \* the MempoolData a caller of GetMempoolData was handed
    tasks,          \* snapshot.go:173-242,307-330  the goroutines each
                    \* handleSnapshot started and their one-slot channels
    builds,         \* history: the number of snapshots built so far
    mu              \* who holds each sync.RWMutex, and who is inside an
                    \* unguarded access

vars == <<now, health, sourcesReady, event, memo, pc, local, ret, lastSet,
          mempoolData, resolved, watcher, heap, backing, mempoolMutex, held,
          tasks, builds, mu>>

healthVars  == <<health, sourcesReady, event>>
cacheVars   == <<memo, lastSet>>
procVars    == <<pc, local>>
sliceVars   == <<heap, backing>>
readerVars  == <<mempoolMutex, held>>
mempoolVars == <<mempoolData, resolved, watcher, sliceVars, readerVars>>
taskVars    == <<tasks, builds>>

---------------------------------------------------------------------------
(* Bounds of the model.                                                    *)

\* last tick of the clock in the relay and cache specifications
MaxTime == 6
\* last tick of the clock in the health specification
MaxHealthTime == 5
\* last second of the clock in the mempool specification
MaxUnix == 3
\* last second of the clock where callers read beside the watcher
MaxReadUnix == 2
\* number of pending transactions the watcher resolves where callers read
\* beside it
MaxReadNotifs == 3
\* number of pending transactions the watcher resolves
MaxNotifs == 11

---------------------------------------------------------------------------
(* Time.                                                                   *)

\* time.Time{}: the zero instant, before every instant the clock shows
ZeroTime == 0
\* the clock when the process starts
StartTime == 1

\* t.IsZero()
IsZero(t) == t = ZeroTime

\* now.Before(t)
Before(t) == now < t

\* time.Since(t) < d.  time.Since of the zero instant saturates at the
\* largest Duration, which no window of the code exceeds.
SinceLess(t, d) == ~IsZero(t) /\ now - t < d

\* time.Since(t) > d
SinceMore(t, d) == IsZero(t) \/ now - t > d

\* the clock advances by one tick, up to `bound`
Tick(bound) ==
    /\ now < bound
    /\ now' = now + 1

---------------------------------------------------------------------------
(* Request goroutines.                                                     *)

Procs == {"g1", "g2"}

NoLocal == [op |-> "none"]
NoRet   == [op |-> "none"]

---------------------------------------------------------------------------
(* SourceHealth: BaseDataSource (data_source.go).                          *)

Sources == {"beacon", "relay", "rpc", "mempool"}

\* a nil error
Nil == "nil"
\* the errors a caller passes to SetError
Errors == {"backoff", "allFailed", "upstream"}

\* 5*time.Minute, in ticks
HealthyWindow == 3

\* NewBaseDataSource: lastError nil, lastSuccess the zero time
NewBaseDataSource == [lastError |-> Nil, lastSuccess |-> ZeroTime]

\* SetError that forgets to clear the success timestamp
AfterSetError_KeepsSuccess(b, err) ==
    [lastError |-> err, lastSuccess |-> b.lastSuccess]

\* the record after b.SetError(err)
AfterSetError(b, err) == [lastError |-> err, lastSuccess |-> ZeroTime]

\* SetSuccess that forgets to clear the error
AfterSetSuccess_KeepsError(b) == [lastError |-> b.lastError, lastSuccess |-> now]

\* the record after b.SetSuccess()
AfterSetSuccess(b) == [lastError |-> Nil, lastSuccess |-> now]

\* b.IsHealthy()
IsHealthy(b) ==
    IF IsZero(b.lastSuccess) /\ b.lastError = Nil
    THEN TRUE
    ELSE SinceLess(b.lastSuccess, HealthyWindow)

\* b.SetError(err) on the record of source s, and its history
ErrorOn(s, err) ==
    /\ health' = [health EXCEPT ![s] = AfterSetError(health[s], err)]
    /\ event' = [op |-> "SetError", src |-> s, at |-> now,
                 priorSuccess |-> health[s].lastSuccess,
                 priorError |-> health[s].lastError]

\* b.SetSuccess() on the record of source s, and its history
SuccessOn(s) ==
    /\ health' = [health EXCEPT ![s] = AfterSetSuccess(health[s])]
    /\ event' = [op |-> "SetSuccess", src |-> s, at |-> now,
                 priorSuccess |-> health[s].lastSuccess,
                 priorError |-> health[s].lastError]

\* initHealthSources: the four pointers are nil until it has run
initHealthSources ==
    /\ ~sourcesReady
    /\ sourcesReady' = TRUE
    /\ health' = [s \in Sources |-> NewBaseDataSource]
    /\ ret' = NoRet
    /\ UNCHANGED <<taskVars, mu, now, event, cacheVars, procVars, mempoolVars>>

\* a caller records a failure on source s (err may be nil: health.go:66, 105)
SetError(s, err) ==
    /\ sourcesReady
    /\ ErrorOn(s, err)
    /\ ret' = NoRet
    /\ UNCHANGED <<taskVars, mu,
                   now, sourcesReady, cacheVars, procVars, mempoolVars>>

\* a caller records a success on source s
SetSuccess(s) ==
    /\ sourcesReady
    /\ SuccessOn(s)
    /\ ret' = NoRet
    /\ UNCHANGED <<taskVars, mu,
                   now, sourcesReady, cacheVars, procVars, mempoolVars>>

HealthTick ==
    /\ Tick(MaxHealthTime)
    /\ ret' = NoRet
    /\ UNCHANGED <<taskVars, mu, healthVars, cacheVars, procVars, mempoolVars>>

---------------------------------------------------------------------------
(* Maps (Go map[string]T) as functions on the set of keys present.         *)

EmptyMap == [k \in {} |-> k]

\* m[k] = e
MapSet(m, k, e) == [x \in DOMAIN m \cup {k} |-> IF x = k THEN e ELSE m[x]]

\* delete(m, k)
MapDelete(m, k) == [x \in DOMAIN m \ {k} |-> m[x]]

---------------------------------------------------------------------------
(* The caches: relay.go:149-239, snapshot.go:37-112, beacon.go:46-104.     *)
(* All four maps are read and written by the same three pieces of code:    *)
(* a lookup that samples the clock and reads the map under RLock, an       *)
(* eviction that deletes the key under Lock when the lookup saw a stale    *)
(* entry, and a store under Lock.                                          *)

Caches == {"relay", "relayFail", "snapshot", "beacon"}

relayMemo     == memo["relay"]
relayFailMemo == memo["relayFail"]
snapshotMemo  == memo["snapshot"]
beaconMemo    == memo["beacon"]

Keys   == {"k1", "k2"}
Bodies == {"b1", "b2"}
\* the HTTP statuses a consensus API answers with
Statuses == {200, 404}

\* durations in ticks
relayTTL     == 4
relayErrTTL  == 3
snapshotTTL  == 5
beaconOkTTL  == 4
beaconErrTTL == 3

\* status/100 == 2
Is2xx(status) == status \div 100 = 2

\* the ttl beaconCacheSet picks
BeaconTTL(status) == IF Is2xx(status) THEN beaconOkTTL ELSE beaconErrTTL

\* a lookup that also serves an entry at its expiry instant
Lookup_ServesAtExpiry(c, k) ==
    IF k \in DOMAIN memo[c]
    THEN IF now <= memo[c][k].expires THEN "hit" ELSE "stale"
    ELSE "miss"

\* a lookup that finds nothing
Lookup_AlwaysMisses(c, k) == "miss"

\* now := time.Now(); e, ok := m[key]; ok && now.Before(e.expires)
Lookup(c, k) ==
    IF k \in DOMAIN memo[c]
    THEN IF Before(memo[c][k].expires) THEN "hit" ELSE "stale"
    ELSE "miss"

\* delete(m, key) under the write lock
Evicted(c, k) == [memo EXCEPT ![c] = MapDelete(@, k)]

\* a store that sets the expiry one tick too early
Stored_ShortTTL(c, k, e, ttl) ==
    [memo EXCEPT ![c] = MapSet(@, k, [e EXCEPT !.expires = now + ttl - 1])]

\* a store that is lost
Stored_Dropped(c, k, e, ttl) == memo

\* m[key] = entry{..., expires: time.Now().Add(ttl)} under the write lock
Stored(c, k, e, ttl) ==
    [memo EXCEPT ![c] = MapSet(@, k, [e EXCEPT !.expires = now + ttl])]

\* history of the store, for the claims
Noted(c, k, e, ttl) ==
    [lastSet EXCEPT ![c] = MapSet(@, k, [body |-> e.body, at |-> now,
                                         ttl |-> ttl])]

\* every other goroutine is between calls
Solo(p) == \A q \in Procs \ {p} : pc[q] = "idle"

\* One cache operation that is called on its own: c is "snapshot" or
\* "beacon".  The lookup either returns or leaves the goroutine before the
\* eviction, which is a second critical section.
CacheGet(p, c, k) ==
    /\ pc[p] = "idle"
    /\ CASE Lookup(c, k) = "hit" ->
              /\ ret' = [op |-> "get", proc |-> p, cache |-> c, key |-> k,
                         found |-> TRUE, entry |-> memo[c][k], stale |-> FALSE,
                         at |-> now]
              /\ UNCHANGED <<pc, local>>
         [] Lookup(c, k) = "stale" ->
              /\ pc' = [pc EXCEPT ![p] = "evict"]
              /\ local' = [local EXCEPT ![p] =
                              [op |-> "get", cache |-> c, key |-> k,
                               at |-> now]]
              /\ ret' = NoRet
         [] OTHER ->
              /\ ret' = [op |-> "get", proc |-> p, cache |-> c, key |-> k,
                         found |-> FALSE, stale |-> FALSE, at |-> now]
              /\ UNCHANGED <<pc, local>>
    /\ UNCHANGED <<taskVars, mu, now, healthVars, cacheVars, mempoolVars>>

CacheEvict(p) ==
    /\ pc[p] = "evict"
    /\ memo' = Evicted(local[p].cache, local[p].key)
    /\ ret' = [op |-> "get", proc |-> p, cache |-> local[p].cache,
               key |-> local[p].key, found |-> FALSE, stale |-> TRUE,
               at |-> local[p].at]
    /\ pc' = [pc EXCEPT ![p] = "idle"]
    /\ local' = [local EXCEPT ![p] = NoLocal]
    /\ UNCHANGED <<taskVars, mu, now, healthVars, lastSet, mempoolVars>>

CacheSet(p, c, k, e, ttl) ==
    /\ pc[p] = "idle"
    /\ memo' = Stored(c, k, e, ttl)
    /\ lastSet' = Noted(c, k, e, ttl)
    /\ ret' = [op |-> "set", proc |-> p, cache |-> c, key |-> k, at |-> now]
    /\ UNCHANGED <<taskVars, mu, now, healthVars, pc, local, mempoolVars>>

\* snapshot.go:76-97
snapshotCacheGet(p, key) == CacheGet(p, "snapshot", key)

\* snapshot.go:105-112
snapshotCacheSet(p, key, body) ==
    CacheSet(p, "snapshot", key, [body |-> body, expires |-> ZeroTime],
             snapshotTTL)

\* beacon.go:71-85
beaconCacheGet(p, key) == CacheGet(p, "beacon", key)

\* beacon.go:96-104
beaconCacheSet(p, key, body, status) ==
    CacheSet(p, "beacon", key,
             [body |-> body, status |-> status, expires |-> ZeroTime],
             BeaconTTL(status))

\* the clock advances while every goroutine is between calls or waiting
\* for the network: no step between two suspension points takes a tick
Suspended(p) == pc[p] \in {"idle", "request"}

CacheTick ==
    /\ \A p \in Procs : Suspended(p)
    /\ Tick(MaxTime)
    /\ ret' = NoRet
    /\ UNCHANGED <<taskVars, mu, healthVars, cacheVars, procVars, mempoolVars>>

\* the mempool watcher before main calls startMempoolSubscription
\* the consecutive failed sessions are counted up to this number
MaxFailures == 8

\* mempool_ws.go:93 and 87: the first reconnect delay and its ceiling, in
\* seconds
backoffBase == 3
maxBackoff  == 300

\* a reconnect delay that doubles without a ceiling
NextBackoff_Uncapped(backoff, ok) ==
    IF ok THEN backoffBase ELSE backoff * 2

\* mempool_ws.go:98-107: the delay after a session that returned ok
NextBackoff(backoff, ok) ==
    IF ok THEN backoffBase
    ELSE IF backoff * 2 > maxBackoff THEN maxBackoff ELSE backoff * 2

\* mempool_ws.go:97-113: dialAndConsume has returned ok, the delay is
\* adjusted and the loop sleeps.  failures, delivered and skipped are
\* history: the sessions that returned false in a row, whether the session
\* put a transaction in the buffer, and which `continue` of the read loop
\* the session took on the notification it has just dropped ("" when the
\* last notification was not dropped)
SessionEnded(w, ok) ==
    [w EXCEPT !.pc = "sleep",
              !.backoff = NextBackoff(@, ok),
              !.failures = IF ok THEN 0
                           ELSE IF @ < MaxFailures THEN @ + 1 ELSE @,
              !.delivered = FALSE,
              !.skipped = ""]

NewWatcher == [mode |-> "none", pc |-> "start", hash |-> 0, todo |-> <<>>,
               after |-> "none", backoff |-> backoffBase, failures |-> 0,
               delivered |-> FALSE, skipped |-> ""]

\* the goroutines one handleSnapshot starts: the four fetches and the
\* sandwich analysis
FetchNames == {"rec", "del", "hdr", "fin"}
TaskNames  == FetchNames \cup {"mev"}

\* a goroutine that was not started
NoTask  == [state |-> "none", value |-> "nil", late |-> FALSE]
NoTasks == [f \in TaskNames |-> NoTask]

\* nobody is inside an access of shared state
NoAccess == {}

\* names of the backing arrays: the one the buffer points into, the one a
\* caller still holds, and the one being allocated
ArrayIds == 1..3

---------------------------------------------------------------------------
(* The state after construction.                                           *)

Init ==
    /\ now = StartTime
    /\ health = [s \in Sources |-> NewBaseDataSource]
    /\ sourcesReady = FALSE
    /\ event = [op |-> "none", src |-> "none", at |-> StartTime,
                priorSuccess |-> ZeroTime, priorError |-> Nil]
    /\ memo = [c \in Caches |-> EmptyMap]
    /\ pc = [p \in Procs |-> "idle"]
    /\ local = [p \in Procs |-> NoLocal]
    /\ ret = NoRet
    /\ lastSet = [c \in Caches |-> EmptyMap]
    /\ mempoolData = [PendingTxs |-> <<>>, Count |-> 0, LastUpdate |-> 0,
                      Source |-> "ws"]
    /\ resolved = <<>>
    /\ watcher = NewWatcher
    /\ heap = [id \in ArrayIds |-> <<>>]
    /\ backing = 1
    /\ mempoolMutex = [writer |-> FALSE, readers |-> {}]
    /\ held = NoRet
    /\ tasks = [p \in Procs |-> NoTasks]
    /\ builds = 0
    /\ mu = NoAccess

---------------------------------------------------------------------------
(* The health record under arbitrary callers.                              *)

\* the records whose callers (rpcCall, checkRPCHealth, checkMempoolHealth)
\* are taken as arbitrary here; relayGET drives the relay record below
CallerSources == {"rpc", "mempool"}

HealthNext ==
    \/ initHealthSources
    \/ \E s \in CallerSources, err \in Errors \cup {Nil} : SetError(s, err)
    \/ \E s \in CallerSources : SetSuccess(s)
    \/ HealthTick

SpecHealth == Init /\ [][HealthNext]_vars

\* C7 (as claimed): in every reachable state of a SourceHealth record,
\* isHealthy() equals (lastError == null OR now - lastSuccess < 5 minutes).
C7_HealthyIsNoErrorOrRecent ==
    \A s \in Sources :
        IsHealthy(health[s]) =
            (health[s].lastError = Nil
                \/ SinceLess(health[s].lastSuccess, HealthyWindow))

C9_SuccessRestoresHealth ==
    \A s \in Sources :
        (event.op = "SetSuccess" /\ event.src = s)
        => /\ health[s].lastError = Nil
           /\ health[s].lastSuccess = event.at
           /\ (now - event.at < HealthyWindow => IsHealthy(health[s]))

\* C9 witness: the success follows a recorded error on an unhealthy record
C9_Witness ==
    \E s \in Sources :
        /\ event.op = "SetSuccess" /\ event.src = s /\ event.at = now
        /\ event.priorError # Nil
        /\ IsZero(event.priorSuccess)
        /\ IsHealthy(health[s])

---------------------------------------------------------------------------
(* relayGET (relay.go:61-143), one step per critical section or network   *)
(* wait.                                                                   *)

\* the cache keys of the relay caches are request paths
Paths == Keys

\* relayBases: the configured candidates, in order
relayBases == <<"r1", "r2", "r3">>

\* what one candidate does with one request
RequestFailures == {"transportError", "non2xx", "empty"}
Outcomes == RequestFailures \cup Bodies

\* durations in ticks
relayBudget      == 1
relayHTTPTimeout == 2

\* the locals of a relayGET call; attempts and skipped are history: the
\* requests sent so far, and the candidates whose request could not be built
RelayLocal(path) ==
    [op |-> "relayGET", path |-> path, started |-> ZeroTime, idx |-> 1,
     lastErr |-> Nil, attempts |-> <<>>, skipped |-> {},
     reqStart |-> ZeroTime, answer |-> Nil,
     cache |-> "none", key |-> "none", at |-> ZeroTime]

\* the call of goroutine p, with locals loc, returns
ReturnedOf(p, loc, kind, body) ==
    [op |-> "relayGET", proc |-> p, path |-> loc.path, kind |-> kind,
     body |-> body, attempts |-> loc.attempts, skipped |-> loc.skipped]

Returned(p, kind, body) == ReturnedOf(p, local[p], kind, body)

\* a failure path that leaves the health record alone
RelayHealthError_Skipped(err) == UNCHANGED health

\* if relayHealth != nil { relayHealth.SetError(err) }
RelayHealthError(err) ==
    IF sourcesReady
    THEN health' = [health EXCEPT !["relay"] = AfterSetError(@, err)]
    ELSE UNCHANGED health

\* if relayHealth != nil { relayHealth.SetSuccess() }
RelayHealthSuccess ==
    IF sourcesReady
    THEN health' = [health EXCEPT !["relay"] = AfterSetSuccess(@)]
    ELSE UNCHANGED health

\* a negative-cache check that lets a path in backoff through
FailLookup_Ignored(path) == "miss"

\* relayFailRecently's lookup (relay.go:221-229)
FailLookup(path) == Lookup("relayFail", path)

\* relay.go:61-69 with relayFailRecently's lookup (relay.go:220-229): the call
\* starts, and returns the backoff error if the path failed recently
relayGET(p, path) ==
    /\ pc[p] = "idle"
    /\ CASE FailLookup(path) = "hit" ->
              /\ RelayHealthError("backoff")
              /\ ret' = ReturnedOf(p, RelayLocal(path), "backoff", Nil)
              /\ UNCHANGED <<pc, local>>
         [] FailLookup(path) = "stale" ->
              /\ pc' = [pc EXCEPT ![p] = "failEvict"]
              /\ local' = [local EXCEPT ![p] =
                              [RelayLocal(path) EXCEPT !.cache = "relayFail",
                                                       !.key = path,
                                                       !.at = now]]
              /\ ret' = NoRet
              /\ UNCHANGED health
         [] OTHER ->
              /\ pc' = [pc EXCEPT ![p] = "cacheGet"]
              /\ local' = [local EXCEPT ![p] = RelayLocal(path)]
              /\ ret' = NoRet
              /\ UNCHANGED health
    /\ UNCHANGED <<taskVars, mu,
                   now, sourcesReady, event, cacheVars, mempoolVars>>

\* relay.go:231-238: relayFailRecently deletes the expired backoff entry
RelayFailEvict(p) ==
    /\ pc[p] = "failEvict"
    /\ memo' = Evicted("relayFail", local[p].path)
    /\ pc' = [pc EXCEPT ![p] = "cacheGet"]
    /\ local' = [local EXCEPT ![p].cache = "none", ![p].key = "none",
                              ![p].at = ZeroTime]
    /\ ret' = NoRet
    /\ UNCHANGED <<taskVars, mu, now, healthVars, lastSet, mempoolVars>>

\* a cache check that never hits
CacheLookup_NeverHits(path) ==
    IF Lookup("relay", path) = "hit" THEN "miss" ELSE Lookup("relay", path)

\* relayCacheGet's lookup (relay.go:168-176)
CacheLookup(path) == Lookup("relay", path)

\* relay.go:71-78: the positive cache is consulted; on a miss the iteration
\* over the candidates starts
RelayCacheGet(p) ==
    /\ pc[p] = "cacheGet"
    /\ CASE CacheLookup(local[p].path) = "hit" ->
              /\ ret' = Returned(p, "cached", memo["relay"][local[p].path].body)
              /\ pc' = [pc EXCEPT ![p] = "idle"]
              /\ local' = [local EXCEPT ![p] = NoLocal]
         [] CacheLookup(local[p].path) = "stale" ->
              /\ pc' = [pc EXCEPT ![p] = "cacheEvict"]
              /\ local' = [local EXCEPT ![p].cache = "relay",
                                        ![p].key = local[p].path,
                                        ![p].at = now]
              /\ ret' = NoRet
         [] OTHER ->
              /\ pc' = [pc EXCEPT ![p] = "loop"]
              /\ local' = [local EXCEPT ![p].started = now]
              /\ ret' = NoRet
    /\ UNCHANGED <<taskVars, mu, now, healthVars, cacheVars, mempoolVars>>

\* relay.go:179-183 then 76-78
RelayCacheEvict(p) ==
    /\ pc[p] = "cacheEvict"
    /\ memo' = Evicted("relay", local[p].path)
    /\ pc' = [pc EXCEPT ![p] = "loop"]
    /\ local' = [local EXCEPT ![p].cache = "none", ![p].key = "none",
                              ![p].at = ZeroTime, ![p].started = now]
    /\ ret' = NoRet
    /\ UNCHANGED <<taskVars, mu, now, healthVars, lastSet, mempoolVars>>

\* a loop that never looks at the clock
BudgetExceeded_Never(started) == FALSE

\* time.Since(started) > relayBudget
BudgetExceeded(started) == SinceMore(started, relayBudget)

\* relay.go:81-96: the head of the loop.  The iteration ends when the
\* candidates are used up or the budget is exceeded; a candidate whose
\* request cannot be built is skipped; otherwise the request is sent.
RelayLoop(p, built) ==
    /\ pc[p] = "loop"
    /\ IF local[p].idx > Len(relayBases) \/ BudgetExceeded(local[p].started)
       THEN /\ pc' = [pc EXCEPT ![p] = "markFail"]
            /\ UNCHANGED local
       ELSE IF ~built
       THEN /\ local' = [local EXCEPT ![p].lastErr = "requestCreation",
                                      ![p].skipped = @ \cup {local[p].idx},
                                      ![p].idx = @ + 1]
            /\ UNCHANGED pc
       ELSE /\ pc' = [pc EXCEPT ![p] = "request"]
            /\ local' = [local EXCEPT
                            ![p].attempts =
                                Append(@, [base |-> local[p].idx,
                                           result |-> "pending"]),
                            ![p].reqStart = now]
    /\ ret' = NoRet
    /\ UNCHANGED <<taskVars, mu, now, healthVars, cacheVars, mempoolVars>>

\* the attempts with the result of the request in flight filled in
Answered(p, outcome) ==
    [local[p].attempts EXCEPT ![Len(local[p].attempts)].result = outcome]

\* relay.go:96-121: the candidate answers (or the client times out); a
\* non-empty 2xx body is stored in the positive cache
RelayResponse(p, outcome) ==
    /\ pc[p] = "request"
    /\ CASE outcome = "transportError" ->
              /\ local' = [local EXCEPT ![p].lastErr = "requestFailed",
                                        ![p].attempts = Answered(p, outcome),
                                        ![p].idx = @ + 1]
              /\ pc' = [pc EXCEPT ![p] = "loop"]
              /\ UNCHANGED memo
         [] outcome \in {"non2xx", "empty"} ->
              /\ local' = [local EXCEPT ![p].lastErr = outcome,
                                        ![p].attempts = Answered(p, outcome)]
              /\ pc' = [pc EXCEPT ![p] = "reread"]
              /\ UNCHANGED memo
         [] OTHER ->
              /\ memo' = Stored("relay", local[p].path,
                                [body |-> outcome, expires |-> ZeroTime],
                                relayTTL)
              /\ local' = [local EXCEPT ![p].answer = outcome,
                                        ![p].attempts = Answered(p, outcome)]
              /\ pc' = [pc EXCEPT ![p] = "reread"]
    /\ ret' = NoRet
    /\ UNCHANGED <<taskVars, mu, now, healthVars, lastSet, mempoolVars>>

\* a loop that asks the same candidate again when the re-read finds nothing
RelayReread_RetriesCandidate(p) ==
    /\ pc[p] = "reread"
    /\ CASE CacheLookup(local[p].path) = "hit" ->
              /\ RelayHealthSuccess
              /\ ret' = Returned(p, "ok", memo["relay"][local[p].path].body)
              /\ pc' = [pc EXCEPT ![p] = "idle"]
              /\ local' = [local EXCEPT ![p] = NoLocal]
         [] OTHER ->
              /\ pc' = [pc EXCEPT ![p] = "loop"]
              /\ local' = [local EXCEPT ![p].answer = Nil]
              /\ ret' = NoRet
              /\ UNCHANGED health
    /\ UNCHANGED <<taskVars, mu,
                   now, sourcesReady, event, cacheVars, mempoolVars>>

\* relay.go:123-130: "if the cache now has it, we succeeded"
RelayReread(p) ==
    /\ pc[p] = "reread"
    /\ CASE CacheLookup(local[p].path) = "hit" ->
              /\ RelayHealthSuccess
              /\ ret' = Returned(p, "ok", memo["relay"][local[p].path].body)
              /\ pc' = [pc EXCEPT ![p] = "idle"]
              /\ local' = [local EXCEPT ![p] = NoLocal]
         [] CacheLookup(local[p].path) = "stale" ->
              /\ pc' = [pc EXCEPT ![p] = "rereadEvict"]
              /\ local' = [local EXCEPT ![p].cache = "relay",
                                        ![p].key = local[p].path,
                                        ![p].at = now]
              /\ ret' = NoRet
              /\ UNCHANGED health
         [] OTHER ->
              /\ pc' = [pc EXCEPT ![p] = "loop"]
              /\ local' = [local EXCEPT ![p].idx = @ + 1,
                                        ![p].answer = Nil]
              /\ ret' = NoRet
              /\ UNCHANGED health
    /\ UNCHANGED <<taskVars, mu,
                   now, sourcesReady, event, cacheVars, mempoolVars>>

\* relay.go:179-183 inside the re-read, then the next candidate
RelayRereadEvict(p) ==
    /\ pc[p] = "rereadEvict"
    /\ memo' = Evicted("relay", local[p].path)
    /\ pc' = [pc EXCEPT ![p] = "loop"]
    /\ local' = [local EXCEPT ![p].cache = "none", ![p].key = "none",
                              ![p].at = ZeroTime, ![p].idx = @ + 1,
                              ![p].answer = Nil]
    /\ ret' = NoRet
    /\ UNCHANGED <<taskVars, mu, now, healthVars, lastSet, mempoolVars>>

\* a terminal failure that leaves no backoff entry
MarkedFail_Nothing(path) == memo

\* relayCacheMarkFail (relay.go:213-217)
MarkedFail(path) ==
    Stored("relayFail", path, [expires |-> ZeroTime], relayErrTTL)

\* relay.go:133-142: every candidate failed or the budget ran out
RelayMarkFail(p) ==
    /\ pc[p] = "markFail"
    /\ memo' = MarkedFail(local[p].path)
    /\ IF local[p].lastErr # Nil
       THEN RelayHealthError("allFailed")
       ELSE UNCHANGED health
    /\ ret' = Returned(p, "fail", Nil)
    /\ pc' = [pc EXCEPT ![p] = "idle"]
    /\ local' = [local EXCEPT ![p] = NoLocal]
    /\ UNCHANGED <<taskVars, mu, now, sourcesReady, event, lastSet, mempoolVars>>

\* a request in flight ends by the client timeout at the latest
InTime(p) == pc[p] = "request" => now - local[p].reqStart < relayHTTPTimeout

RelayTick ==
    /\ \A p \in Procs : Suspended(p) /\ InTime(p)
    /\ Tick(MaxTime)
    /\ ret' = NoRet
    /\ UNCHANGED <<taskVars, mu, healthVars, cacheVars, procVars, mempoolVars>>

\* relayGET called by one request at a time, in the program as main wires
\* it: initHealthSources is never called, so relayHealth is nil.  The re-read
\* never sees a stale entry here, so RelayRereadEvict has no step to take.
RelayNext ==
    \/ \E p \in Procs, path \in Paths : Solo(p) /\ relayGET(p, path)
    \/ \E p \in Procs : RelayFailEvict(p)
    \/ \E p \in Procs : RelayCacheGet(p)
    \/ \E p \in Procs : RelayCacheEvict(p)
    \/ \E p \in Procs, built \in BOOLEAN : RelayLoop(p, built)
    \/ \E p \in Procs, outcome \in Outcomes : RelayResponse(p, outcome)
    \/ \E p \in Procs : RelayReread(p)
    \/ \E p \in Procs : RelayMarkFail(p)
    \/ RelayTick

\* What two calls for the same path that ran side by side leave behind when
\* one was answered and the other ran out of candidates in the same instant:
\* relayCacheSet (relay.go:189-193) and relayCacheMarkFail (relay.go:213-217)
\* have both stored an entry for the path.
RacedCaches(paths) ==
    [c \in Caches |->
        IF c = "relay"
        THEN [k \in paths |-> [body |-> "b1", expires |-> now + relayTTL]]
        ELSE IF c = "relayFail"
        THEN [k \in paths |-> [expires |-> now + relayErrTTL]]
        ELSE EmptyMap]

\* the first request of a run finds the caches empty, or as such calls left
\* them
InitRelay ==
    /\ now = StartTime
    /\ health = [s \in Sources |-> NewBaseDataSource]
    /\ sourcesReady = FALSE
    /\ event = [op |-> "none"]
    /\ \E paths \in SUBSET Paths : memo = RacedCaches(paths)
    /\ lastSet = [c \in Caches |-> EmptyMap]
    /\ pc = [p \in Procs |-> "idle"]
    /\ local = [p \in Procs |-> NoLocal]
    /\ ret = NoRet
    /\ mempoolData = [PendingTxs |-> <<>>, Count |-> 0, LastUpdate |-> 0,
                      Source |-> "ws"]
    /\ resolved = <<>>
    /\ watcher = NewWatcher
    /\ heap = [id \in ArrayIds |-> <<>>]
    /\ backing = 1
    /\ mempoolMutex = [writer |-> FALSE, readers |-> {}]
    /\ held = NoRet
    /\ tasks = [p \in Procs |-> NoTasks]
    /\ builds = 0
    /\ mu = NoAccess

SpecRelay == InitRelay /\ [][RelayNext]_vars

\* goroutine p takes a step of its call
Steps(p) == pc'[p] # pc[p] \/ local'[p] # local[p]

\* relayGET(path) is entered by goroutine p in this step
CallStarts(p, path) ==
    /\ pc[p] = "idle"
    /\ \/ pc'[p] # "idle" /\ local'[p].op = "relayGET"
                          /\ local'[p].path = path
       \/ ret'.op = "relayGET" /\ ret'.proc = p /\ ret'.path = path

\* a relayGET call of goroutine p returns in this step
CallReturns(p, kind) ==
    ret'.op = "relayGET" /\ ret'.proc = p /\ ret'.kind = kind

\* the path is in backoff / has a usable cached body
NegativeFresh(path) ==
    path \in DOMAIN relayFailMemo /\ now < relayFailMemo[path].expires
PositiveFresh(path) ==
    path \in DOMAIN relayMemo /\ now < relayMemo[path].expires

Bases(attempts) == {attempts[i].base : i \in 1..Len(attempts)}

C4_PositiveHitServed ==
    [][\A p \in Procs, path \in Paths :
          /\ (CallStarts(p, path) /\ ~NegativeFresh(path))
                => /\ pc'[p] \in {"failEvict", "cacheGet"}
                   /\ local'[p].attempts = <<>>
                   /\ memo' = memo
          /\ (pc[p] = "failEvict" /\ Steps(p) /\ local[p].path = path)
                => /\ pc'[p] = "cacheGet"
                   /\ local'[p].attempts = <<>>
                   /\ memo'["relay"] = memo["relay"]
          /\ (pc[p] = "cacheGet" /\ Steps(p) /\ local[p].path = path
                /\ PositiveFresh(path))
                => /\ CallReturns(p, "cached")
                   /\ ret'.path = path
                   /\ ret'.body = relayMemo[path].body
                   /\ ret'.attempts = <<>> /\ ret'.skipped = {}
                   /\ pc'[p] = "idle"
                   /\ memo' = memo
      ]_vars

\* a call was served from the positive cache
C4_Witness ==
    /\ ret.op = "relayGET" /\ ret.kind = "cached"
    /\ PositiveFresh(ret.path)
    /\ ret.body = relayMemo[ret.path].body
    /\ ret.attempts = <<>>

---------------------------------------------------------------------------
(* The snapshot cache and the beacon cache under arbitrary callers, one    *)
(* operation at a time.                                                    *)

SnapshotCacheNext ==
    \/ \E p \in Procs, k \in Keys : Solo(p) /\ snapshotCacheGet(p, k)
    \/ \E p \in Procs : CacheEvict(p)
    \/ \E p \in Procs, k \in Keys, b \in Bodies :
            Solo(p) /\ snapshotCacheSet(p, k, b)
    \/ CacheTick

SpecSnapshotCache == Init /\ [][SnapshotCacheNext]_vars

BeaconCacheNext ==
    \/ \E p \in Procs, k \in Keys : Solo(p) /\ beaconCacheGet(p, k)
    \/ \E p \in Procs : CacheEvict(p)
    \/ \E p \in Procs, k \in Keys, b \in Bodies, st \in Statuses :
            Solo(p) /\ beaconCacheSet(p, k, b, st)
    \/ CacheTick

SpecBeaconCache == Init /\ [][BeaconCacheNext]_vars

\* a get of (c, k) returns in this step
GetReturns(c, k) == ret'.op = "get" /\ ret'.cache = c /\ ret'.key = k

Evicts(p, c, k) ==
    /\ pc[p] \in {"evict", "failEvict", "cacheEvict", "rereadEvict"}
    /\ pc'[p] # pc[p]
    /\ local[p].cache = c /\ local[p].key = k

---------------------------------------------------------------------------
(* The mempool watcher in push mode (mempool_ws.go).                       *)

\* what the environment configures (MEMPOOL_DISABLE, RPC_WS_URL)
Configs == {"disabled", "noURL", "push"}

\* transaction hashes the feed announces
Hashes == 1..MaxNotifs

\* the feed announces pending transactions that are not in the buffer yet:
\* the next hash is the first one that has not been resolved
NextHash == Len(resolved) + 1

\* "Keep only the most recent 10 transactions" (mempool_ws.go:192)
MempoolKeep == 10

\* the first n elements of a slice, s[:n]
FirstN(s, n) == SubSeq(s, 1, n)

\* the placeholder transactions of the disabled mode (mempool_ws.go:67-78):
\* Hash i+1, Timestamp now - i*10 for i = 0..9
MockTxs == [i \in 1..10 |-> [Hash |-> -i, Timestamp |-> now - (i - 1) * 10]]

\* a buffer that grows at the wrong end
Pushed_KeepsOldest(txs, pt) ==
    IF Len(txs) >= MempoolKeep THEN txs ELSE Append(txs, pt)

\* mempool_ws.go:190-194: the transaction is put in front and the slice is
\* cut to its first 10 elements
Pushed(txs, pt) ==
    IF Len(<<pt>> \o txs) > MempoolKeep
    THEN FirstN(<<pt>> \o txs, MempoolKeep)
    ELSE <<pt>> \o txs

\* One statement of a critical section on mempoolData, executed on the
\* struct as it is when the statement runs.
Exec(data, stmt) ==
    CASE stmt.op = "push"     -> [data EXCEPT !.PendingTxs = Pushed(@, stmt.tx)]
      [] stmt.op = "assign"   -> [data EXCEPT !.PendingTxs = stmt.txs]
      [] stmt.op = "count"    -> [data EXCEPT !.Count = Len(data.PendingTxs)]
      [] stmt.op = "setCount" -> [data EXCEPT !.Count = stmt.n]
      [] stmt.op = "stamp"    -> [data EXCEPT !.LastUpdate = stmt.at]
      [] OTHER                -> [data EXCEPT !.Source = stmt.label]

\* the statements that make mempoolData.PendingTxs point to a new array:
\* append([]PendingTx{pt}, ...) and the assignment of a slice just made
Allocates(stmt) == stmt.op \in {"push", "assign"}

RECURSIVE Run(_, _)
\* the statements of a critical section, in order
Run(data, stmts) ==
    IF stmts = <<>> THEN data
    ELSE Run(Exec(data, Head(stmts)), Tail(stmts))

\* mempool_ws.go:62-79: the critical section of the disabled mode
DisabledWrite ==
    << [op |-> "source", label |-> "ws-disabled"],
       [op |-> "setCount", n |-> 10],
       [op |-> "stamp", at |-> now],
       [op |-> "assign", txs |-> MockTxs] >>

\* mempool_ws.go:128-130: the critical section after a failed dial
UnavailableWrite == << [op |-> "source", label |-> "ws-unavailable"] >>

\* mempool_ws.go:189-198: the critical section that commits a transaction
PushWrite(pt) ==
    << [op |-> "push", tx |-> pt],
       [op |-> "count"],
       [op |-> "stamp", at |-> pt.Timestamp],
       [op |-> "source", label |-> "ws"] >>

\* the arrays a caller of GetMempoolData still holds
HeldArrays == IF held.op = "GetMempoolData" THEN {held.backing} ELSE {}

\* a fresh backing array: one that nothing points into
NewArray ==
    CHOOSE id \in ArrayIds \ (HeldArrays \cup {backing}) :
        \A other \in ArrayIds \ (HeldArrays \cup {backing}) : id <= other

\* the statements are executed on mempoolData; a statement that allocates
\* leaves the slice in a fresh array, and the array nobody points into any
\* more is garbage
Written(stmts) ==
    /\ mempoolData' = Run(mempoolData, stmts)
    /\ IF \E i \in 1..Len(stmts) : Allocates(stmts[i])
       THEN /\ backing' = NewArray
            /\ heap' = [id \in ArrayIds |->
                          IF id = NewArray
                          THEN Run(mempoolData, stmts).PendingTxs
                          ELSE IF id \in HeldArrays THEN heap[id]
                          ELSE <<>>]
       ELSE UNCHANGED sliceVars

\* a start that writes the placeholders and goes on to the session loop
startMempoolSubscription_NoReturn(cfg) ==
    /\ watcher.pc = "start"
    /\ IF cfg = "disabled"
       THEN Written(DisabledWrite)
       ELSE UNCHANGED <<mempoolData, sliceVars>>
    /\ watcher' = [watcher EXCEPT !.mode = cfg,
                                  !.pc = IF cfg = "noURL" THEN "off" ELSE "dial"]
    /\ ret' = NoRet
    /\ UNCHANGED <<taskVars, mu, now, healthVars, cacheVars, procVars, resolved,
                   readerVars>>

\* mempool_ws.go:59-116: the mode is fixed; in push mode the session loop is
\* started
startMempoolSubscription(cfg) ==
    /\ watcher.pc = "start"
    /\ CASE cfg = "disabled" ->
              /\ Written(DisabledWrite)
              /\ watcher' = [watcher EXCEPT !.mode = cfg, !.pc = "off"]
         [] cfg = "noURL" ->
              /\ watcher' = [watcher EXCEPT !.mode = cfg, !.pc = "off"]
              /\ UNCHANGED <<mempoolData, sliceVars>>
         [] OTHER ->
              /\ watcher' = [watcher EXCEPT !.mode = cfg, !.pc = "dial"]
              /\ UNCHANGED <<mempoolData, sliceVars>>
    /\ ret' = NoRet
    /\ UNCHANGED <<taskVars, mu, now, healthVars, cacheVars, procVars, resolved,
                   readerVars>>

\* mempool_ws.go:119-133: the dial; a failure marks the source unavailable
\* and ends the session
Dial(ok) ==
    /\ watcher.pc = "dial"
    /\ IF ok
       THEN /\ watcher' = [watcher EXCEPT !.pc = "subscribe"]
            /\ UNCHANGED <<mempoolData, sliceVars>>
       ELSE /\ Written(UnavailableWrite)
            /\ watcher' = SessionEnded(watcher, FALSE)
    /\ ret' = NoRet
    /\ UNCHANGED <<taskVars, mu, now, healthVars, cacheVars, procVars, resolved,
                   readerVars>>

\* mempool_ws.go:136-152: the subscription request and its acknowledgement
Subscribe(ok) ==
    /\ watcher.pc \in {"subscribe", "ack"}
    /\ watcher' = IF ~ok THEN SessionEnded(watcher, FALSE)
                   ELSE [watcher EXCEPT !.pc = IF @ = "subscribe" THEN "ack"
                                               ELSE "read"]
    /\ ret' = NoRet
    /\ UNCHANGED <<taskVars, mu,
                   now, healthVars, cacheVars, procVars, mempoolData,
                   resolved, sliceVars, readerVars>>

\* what ReadJSON delivers: an error, a notification without a hash, or the
\* hash of a pending transaction
Notifications == {"readError", "empty", "hash"}

\* mempool_ws.go:155-168: the next notification is read; a read error ends
\* the session, an empty hash is skipped
ReadNotification(msg) ==
    /\ watcher.pc = "read"
    /\ msg = "hash" => NextHash \in Hashes
    /\ watcher' = CASE msg = "readError" -> SessionEnded(watcher, FALSE)
                    [] msg = "empty" -> [watcher EXCEPT !.skipped = "empty"]
                    [] OTHER -> [watcher EXCEPT !.pc = "resolve",
                                                !.hash = NextHash,
                                                !.skipped = ""]
    /\ ret' = NoRet
    /\ UNCHANGED <<taskVars, mu,
                   now, healthVars, cacheVars, procVars, mempoolData,
                   resolved, sliceVars, readerVars>>

\* what eth_getTransactionByHash answers
Lookups == {"rpcError", "null", "undecodable", "tx"}

\* a lookup that marks the source unavailable when it fails
ResolveTx_FailureMarksSource(result) ==
    /\ watcher.pc = "resolve"
    /\ IF result = "tx"
       THEN /\ Len(resolved) < MaxNotifs
            /\ LET pt == [Hash |-> watcher.hash, Timestamp |-> now]
               IN  /\ Written(PushWrite(pt))
                   /\ resolved' = <<pt>> \o resolved
       ELSE /\ Written(UnavailableWrite)
            /\ UNCHANGED resolved
    /\ watcher' = [watcher EXCEPT !.pc = "read", !.hash = 0,
                                  !.delivered = @ \/ result = "tx",
                                  !.skipped = IF result = "tx" THEN ""
                                              ELSE result]
    /\ ret' = NoRet
    /\ UNCHANGED <<taskVars, mu,
                   now, healthVars, cacheVars, procVars, readerVars>>

\* mempool_ws.go:170-198: the transaction is looked up; a lookup that fails
\* is skipped, a transaction is stamped and put in the buffer
ResolveTx(result) ==
    /\ watcher.pc = "resolve"
    /\ IF result = "tx"
       THEN /\ Len(resolved) < MaxNotifs
            /\ LET pt == [Hash |-> watcher.hash, Timestamp |-> now]
               IN  /\ Written(PushWrite(pt))
                   /\ resolved' = <<pt>> \o resolved
       ELSE UNCHANGED <<mempoolData, resolved, sliceVars>>
    /\ watcher' = [watcher EXCEPT !.pc = "read", !.hash = 0,
                                  !.delivered = @ \/ result = "tx",
                                  !.skipped = IF result = "tx" THEN ""
                                              ELSE result]
    /\ ret' = NoRet
    /\ UNCHANGED <<taskVars, mu,
                   now, healthVars, cacheVars, procVars, readerVars>>

\* a reconnect loop that ends after a failed session
Redial_GivesUp ==
    /\ watcher.pc = "sleep"
    /\ watcher' = [watcher EXCEPT !.pc = "off"]
    /\ ret' = NoRet
    /\ UNCHANGED <<taskVars, mu,
                   now, healthVars, cacheVars, procVars, mempoolData,
                   resolved, sliceVars, readerVars>>

\* mempool_ws.go:95-114: after the pause the next session starts
Redial ==
    /\ watcher.pc = "sleep"
    /\ watcher' = [watcher EXCEPT !.pc = "dial"]
    /\ ret' = NoRet
    /\ UNCHANGED <<taskVars, mu,
                   now, healthVars, cacheVars, procVars, mempoolData,
                   resolved, sliceVars, readerVars>>

\* time.Now().Unix() advances while the watcher waits for the network or
\* sleeps
MempoolTick ==
    /\ watcher.pc \in {"dial", "subscribe", "ack", "read", "resolve",
                       "sleep", "off"}
    /\ Tick(MaxUnix)
    /\ ret' = NoRet
    /\ UNCHANGED <<taskVars, mu, healthVars, cacheVars, procVars, mempoolVars>>

MempoolNext ==
    \/ \E cfg \in Configs : startMempoolSubscription(cfg)
    \/ \E ok \in BOOLEAN : Dial(ok)
    \/ \E ok \in BOOLEAN : Subscribe(ok)
    \/ \E msg \in Notifications : ReadNotification(msg)
    \/ \E result \in Lookups : ResolveTx(result)
    \/ Redial
    \/ MempoolTick

SpecMempool == Init /\ [][MempoolNext]_vars

\* C10: in push mode, after any sequence of notifications, the buffer holds
\* at most 10 entries, newest first with observation times non-increasing,
\* and they are exactly the up-to-10 most recently resolved transactions;
\* count is the number of entries.
C10_BufferIsNewestFirstWindow ==
    watcher.mode = "push" =>
        LET txs == mempoolData.PendingTxs
            n   == IF Len(resolved) < MempoolKeep THEN Len(resolved)
                   ELSE MempoolKeep
        IN  /\ Len(txs) <= MempoolKeep
            /\ txs = FirstN(resolved, n)
            /\ \A i \in 1..Len(txs), j \in 1..Len(txs) :
                  i < j => txs[i].Timestamp >= txs[j].Timestamp
            /\ mempoolData.Count = Len(txs)

\* the eleventh transaction pushed the first one out of a full buffer whose
\* entries were observed at different seconds
C10_Witness ==
    /\ watcher.mode = "push"
    /\ Len(resolved) > MempoolKeep
    /\ Len(mempoolData.PendingTxs) = MempoolKeep
    /\ mempoolData.PendingTxs[1] = resolved[1]
    /\ mempoolData.PendingTxs[1].Timestamp
          > mempoolData.PendingTxs[MempoolKeep].Timestamp
    /\ mempoolData.PendingTxs[1].Hash = Len(resolved)

---------------------------------------------------------------------------
(* The critical sections on mempoolData statement by statement, with       *)
(* callers of GetMempoolData running beside the watcher.  The watcher is   *)
(* the push watcher of mempool_ws.go or the polling watcher of the other   *)
(* build of that file (part_012).                                          *)

\* the watcher is about to take the write lock for the statements stmts and
\* goes on at `after` when it has released it
BeginWrite(mode, stmts, after) ==
    watcher' = [watcher EXCEPT !.mode = mode, !.pc = "lock", !.hash = 0,
                               !.todo = stmts, !.after = after]

\* mempool_ws.go:59-116 and part_012:62-91: the mode is fixed at startup
StartWatcher(cfg) ==
    /\ watcher.pc = "start"
    /\ CASE cfg = "disabled" -> BeginWrite(cfg, DisabledWrite, "off")
         [] cfg = "noURL" ->
              watcher' = [watcher EXCEPT !.mode = cfg, !.pc = "off"]
         [] cfg = "poll" ->
              watcher' = [watcher EXCEPT !.mode = cfg, !.pc = "poll"]
         [] OTHER ->
              watcher' = [watcher EXCEPT !.mode = cfg, !.pc = "dial"]
    /\ ret' = NoRet
    /\ UNCHANGED <<taskVars, mu,
                   now, healthVars, cacheVars, procVars, mempoolData,
                   resolved, sliceVars, readerVars>>

\* mempool_ws.go:119-133
DialSession(ok) ==
    /\ watcher.pc = "dial"
    /\ IF ok
       THEN watcher' = [watcher EXCEPT !.pc = "subscribe"]
       ELSE BeginWrite(watcher.mode, UnavailableWrite, "sleep")
    /\ ret' = NoRet
    /\ UNCHANGED <<taskVars, mu,
                   now, healthVars, cacheVars, procVars, mempoolData,
                   resolved, sliceVars, readerVars>>

\* mempool_ws.go:170-188: the lookup, the decoding and the time stamp
LookupTx(result) ==
    /\ watcher.pc = "resolve"
    /\ IF result = "tx"
       THEN /\ Len(resolved) < MaxReadNotifs
            /\ BeginWrite(watcher.mode,
                          PushWrite([Hash |-> watcher.hash,
                                     Timestamp |-> now]),
                          "read")
       ELSE watcher' = [watcher EXCEPT !.pc = "read", !.hash = 0]
    /\ ret' = NoRet
    /\ UNCHANGED <<taskVars, mu,
                   now, healthVars, cacheVars, procVars, mempoolData,
                   resolved, sliceVars, readerVars>>

\* the pending blocks the node answers with: none pending, a few, and more
\* than the buffer keeps
PendingBlocks ==
    {[i \in 1..b[2] |-> 100 * b[1] + i] :
        b \in {<<1, 0>>, <<1, 2>>, <<2, MempoolKeep + 1>>}}

\* what one polling round obtains
PollResults ==
    {[kind |-> k, txs |-> <<>>] : k \in {"rpcError", "undecodable"}}
        \cup {[kind |-> "block", txs |-> b] : b \in PendingBlocks}

\* a poller that takes the whole block
PollWrite_TakesAll(block, at) ==
    << [op |-> "assign",
        txs |-> [i \in 1..Len(block) |-> [Hash |-> block[i],
                                          Timestamp |-> at]]],
       [op |-> "count"],
       [op |-> "stamp", at |-> at],
       [op |-> "source", label |-> "http-polling"] >>

\* part_012:133-162: the first 10 transactions of the block, stamped, replace
\* the buffer
PollWrite(block, at) ==
    LET limit == IF Len(block) < MempoolKeep THEN Len(block) ELSE MempoolKeep
    IN  << [op |-> "assign",
            txs |-> [i \in 1..limit |-> [Hash |-> block[i],
                                         Timestamp |-> at]]],
           [op |-> "count"],
           [op |-> "stamp", at |-> at],
           [op |-> "source", label |-> "http-polling"] >>

\* part_012:96-166: one round of startHTTPPolling
PollRound(result) ==
    /\ watcher.pc = "poll"
    /\ IF result.kind = "block" /\ Len(result.txs) > 0
       THEN BeginWrite(watcher.mode, PollWrite(result.txs, now), "poll")
       ELSE UNCHANGED watcher
    /\ ret' = NoRet
    /\ UNCHANGED <<taskVars, mu,
                   now, healthVars, cacheVars, procVars, mempoolData,
                   resolved, sliceVars, readerVars>>

\* mempoolMutex.Lock(): waits until nobody holds the lock
WriterLock ==
    /\ watcher.pc = "lock"
    /\ ~mempoolMutex.writer /\ mempoolMutex.readers = {}
    /\ mempoolMutex' = [mempoolMutex EXCEPT !.writer = TRUE]
    /\ watcher' = [watcher EXCEPT !.pc = "write"]
    /\ ret' = NoRet
    /\ UNCHANGED <<taskVars, mu,
                   now, healthVars, cacheVars, procVars, mempoolData,
                   resolved, sliceVars, held>>

\* the next statement of the critical section
WriteStatement ==
    /\ watcher.pc = "write" /\ watcher.todo # <<>>
    /\ Written(<<Head(watcher.todo)>>)
    /\ watcher' = [watcher EXCEPT !.todo = Tail(@)]
    /\ resolved' = IF Head(watcher.todo).op = "push"
                   THEN <<Head(watcher.todo).tx>> \o resolved
                   ELSE resolved
    /\ ret' = NoRet
    /\ UNCHANGED <<taskVars, mu,
                   now, healthVars, cacheVars, procVars, readerVars>>

\* mempoolMutex.Unlock()
WriterUnlock ==
    /\ watcher.pc = "write" /\ watcher.todo = <<>>
    /\ mempoolMutex' = [mempoolMutex EXCEPT !.writer = FALSE]
    /\ watcher' = IF watcher.after = "sleep"
                   THEN [SessionEnded(watcher, FALSE) EXCEPT !.after = "none"]
                   ELSE [watcher EXCEPT !.pc = watcher.after,
                                        !.after = "none",
                                        !.delivered =
                                            @ \/ watcher.after = "read"]
    /\ ret' = NoRet
    /\ UNCHANGED <<taskVars, mu,
                   now, healthVars, cacheVars, procVars, mempoolData,
                   resolved, sliceVars, held>>

\* a read lock that does not wait for the writer
CanRLock_Always == TRUE

\* mempoolMutex.RLock() returns while no writer holds the lock
CanRLock == ~mempoolMutex.writer

\* mempool_ws.go:50-52: the read lock is taken and the struct is copied; the
\* copy of the slice points into the array the buffer points into
GetMempoolData(p) ==
    /\ pc[p] = "idle"
    /\ CanRLock
    /\ mempoolMutex' = [mempoolMutex EXCEPT !.readers = @ \cup {p}]
    /\ pc' = [pc EXCEPT ![p] = "copied"]
    /\ local' = [local EXCEPT ![p] = [op |-> "GetMempoolData",
                                      data |-> mempoolData,
                                      backing |-> backing]]
    /\ ret' = NoRet
    /\ UNCHANGED <<taskVars, mu,
                   now, healthVars, cacheVars, mempoolData, resolved,
                   watcher, sliceVars, held>>

\* mempool_ws.go:53-54: the read lock is released and the copy returned
ReturnMempoolData(p) ==
    /\ pc[p] = "copied"
    /\ mempoolMutex' = [mempoolMutex EXCEPT !.readers = @ \ {p}]
    /\ held' = local[p]
    /\ ret' = [op |-> "GetMempoolData", proc |-> p, data |-> local[p].data]
    /\ pc' = [pc EXCEPT ![p] = "idle"]
    /\ local' = [local EXCEPT ![p] = NoLocal]
    /\ UNCHANGED <<taskVars, mu,
                   now, healthVars, cacheVars, mempoolData, resolved,
                   watcher, sliceVars>>

\* the clock advances while the watcher waits: for the network, for the
\* ticker, for the lock
ReadTick ==
    /\ watcher.pc \in {"dial", "subscribe", "ack", "read", "resolve",
                       "sleep", "off", "poll", "lock"}
    /\ Tick(MaxReadUnix)
    /\ ret' = NoRet
    /\ UNCHANGED <<taskVars, mu, healthVars, cacheVars, procVars, mempoolVars>>

\* the builds of the watcher: the push build knows disabled, noURL and push,
\* the polling build disabled and poll
Builds == Configs \cup {"poll"}

MempoolReadNext ==
    \/ \E cfg \in Builds : StartWatcher(cfg)
    \/ \E ok \in BOOLEAN : DialSession(ok)
    \/ \E ok \in BOOLEAN : Subscribe(ok)
    \/ \E msg \in Notifications : ReadNotification(msg)
    \/ \E result \in Lookups : LookupTx(result)
    \/ \E result \in PollResults : PollRound(result)
    \/ Redial
    \/ WriterLock
    \/ WriteStatement
    \/ WriterUnlock
    \/ \E p \in Procs : Solo(p) /\ GetMempoolData(p)
    \/ \E p \in Procs : ReturnMempoolData(p)
    \/ ReadTick

SpecMempoolRead == Init /\ [][MempoolReadNext]_vars

\* what the holder of the returned struct sees through its slice now
HeldEntries == FirstN(heap[held.backing], Len(held.data.PendingTxs))

\* C11: GetMempoolData returns a point-in-time copy.  The struct a caller
\* holds has count equal to its number of entries; it was copied while no
\* critical section of the watcher was open, so it is the buffer as one
\* critical section left it; and what the caller sees through the returned
\* slice stays what it was when it was returned, whatever the watcher writes
\* later.
C11_SnapshotIsPointInTimeCopy ==
    [][/\ \A p \in Procs :
            (pc[p] = "idle" /\ pc'[p] = "copied")
                => /\ watcher.pc # "write"
                   /\ local'[p].data = mempoolData
                   /\ local'[p].data.Count = Len(local'[p].data.PendingTxs)
       /\ held' # held
            => /\ held'.data.Count = Len(held'.data.PendingTxs)
               /\ FirstN(heap'[held'.backing], Len(held'.data.PendingTxs))
                     = held'.data.PendingTxs
       /\ (held.op = "GetMempoolData" /\ held' = held)
            => FirstN(heap'[held.backing], Len(held.data.PendingTxs))
                  = HeldEntries
      ]_vars

\* a caller holds a snapshot that the watcher has since pushed two further
\* transactions in front of
C11_Witness ==
    /\ held.op = "GetMempoolData"
    /\ held.data.Count = 1
    /\ HeldEntries = held.data.PendingTxs
    /\ Len(mempoolData.PendingTxs) = 3
    /\ mempoolData.PendingTxs[3] = held.data.PendingTxs[1]
    /\ watcher.mode = "push"


---------------------------------------------------------------------------
(* The snapshot compositor: handleSnapshot (snapshot.go:114-355).          *)
(* A request that misses the snapshot cache starts four fetch goroutines,  *)
(* each with its own one-slot channel, and waits in a select for the four  *)
(* values or for the soft deadline.  With sandwich=1 it then starts the    *)
(* analysis goroutine and waits for its value or for a second deadline.    *)
(* The fetches themselves (relayGET, beaconGET, rpcCall) are taken by      *)
(* what they send on the channel.                                          *)

\* last tick of the clock in the compositor specification
MaxSnapTime == 6
\* number of snapshots the compositor builds
MaxBuilds == 1

\* 4500*time.Millisecond and 6*time.Second, in ticks
softDeadline == 2
mevTimeout   == 3

\* ?limit= after clamping to 1..200 (default 10), ?block= (default latest)
Limits    == {10}
BlockTags == {"latest"}

\* fmt.Sprintf("limit=%d|sandwich=%v|block=%s", ...): one key per triple
cacheKey(limit, includeSandwich, blockTag) ==
    <<limit, includeSandwich, blockTag>>

\* what a fetch goroutine can send: nil (the upstream call failed or gave
\* nothing), data that decodes, or -- for the finality fetch, which passes
\* on the raw body of the consensus API -- bytes that are not JSON
FetchValues(f) ==
    IF f = "fin" THEN {"nil", "data", "malformed"} ELSE {"nil", "data"}

\* what the analysis goroutine can send.  collectSwaps returns a nil error
\* on every path, so "receipt scan failed" is never sent.
MevValues == {"analysis", "block fetch failed"}

\* mp.PendingTxs[:limit] and mp.Count = limit when the buffer is longer
Trimmed(mp, limit) ==
    IF Len(mp.PendingTxs) > limit
    THEN [mp EXCEPT !.PendingTxs = FirstN(mp.PendingTxs, limit),
                    !.Count = IF mp.Count > limit THEN limit ELSE mp.Count]
    ELSE mp

\* the locals of one handleSnapshot
SnapLocal(limit, includeSandwich, blockTag) ==
    [op |-> "handleSnapshot", limit |-> limit, sandwich |-> includeSandwich,
     block |-> blockTag, cache |-> "snapshot",
     key |-> cacheKey(limit, includeSandwich, blockTag), at |-> now,
     mp |-> mempoolData, waitStart |-> ZeroTime, mevStart |-> ZeroTime,
     got |-> [f \in FetchNames |-> FALSE],
     val |-> [f \in FetchNames |-> "nil"],
     timedOut |-> FALSE, response |-> "none"]

\* lines 162-245: the mempool copy, the four go statements, time.After
FannedOut(loc) ==
    [loc EXCEPT !.mp = Trimmed(mempoolData, loc.limit), !.waitStart = now]

Started(p) ==
    [tasks EXCEPT ![p] =
        [f \in TaskNames |->
            IF f \in FetchNames
            THEN [state |-> "running", value |-> "nil", late |-> FALSE]
            ELSE NoTask]]

\* lines 114-156: the cache lookup; a hit is written back as it is
handleSnapshot(p, limit, includeSandwich, blockTag) ==
    LET loc == SnapLocal(limit, includeSandwich, blockTag) IN
    /\ pc[p] = "idle"
    /\ CASE Lookup("snapshot", loc.key) = "hit" ->
              /\ ret' = [op |-> "handleSnapshot", proc |-> p, key |-> loc.key,
                         status |-> 200, body |-> memo["snapshot"][loc.key].body,
                         cached |-> TRUE, at |-> now]
              /\ UNCHANGED <<pc, local, tasks, builds>>
         [] Lookup("snapshot", loc.key) = "stale" ->
              /\ builds < MaxBuilds
              /\ pc' = [pc EXCEPT ![p] = "snapEvict"]
              /\ local' = [local EXCEPT ![p] = loc]
              /\ ret' = NoRet
              /\ UNCHANGED <<tasks, builds>>
         [] OTHER ->
              /\ builds < MaxBuilds
              /\ pc' = [pc EXCEPT ![p] = "wait"]
              /\ local' = [local EXCEPT ![p] = FannedOut(loc)]
              /\ tasks' = Started(p)
              /\ builds' = builds + 1
              /\ ret' = NoRet
    /\ UNCHANGED <<mu, now, healthVars, cacheVars, mempoolVars>>

\* snapshotCacheGet deletes the stale entry, then the build starts
SnapshotEvict(p) ==
    /\ pc[p] = "snapEvict"
    /\ memo' = Evicted("snapshot", local[p].key)
    /\ pc' = [pc EXCEPT ![p] = "wait"]
    /\ local' = [local EXCEPT ![p] = FannedOut(@)]
    /\ tasks' = Started(p)
    /\ builds' = builds + 1
    /\ ret' = NoRet
    /\ UNCHANGED <<mu, now, healthVars, lastSet, mempoolVars>>

\* a timer that has fired as soon as it is started
Fired_AtOnce(since, d) == TRUE

\* time.After(d) started at `since` has fired
Fired(since, d) == now - since >= d

\* the timer of the select the goroutine f of p sends to has fired
\* (a request that has returned while the goroutine runs left its select at
\* the timer)
TimerFired(p, f) ==
    IF local[p] = NoLocal THEN TRUE
    ELSE IF f = "mev" THEN Fired(local[p].mevStart, mevTimeout)
    ELSE Fired(local[p].waitStart, softDeadline)

\* make(chan ..., 1), lines 173-176 and 307: one slot per channel
ChanCap == 1

\* values in the slot of the channel of f that nobody has taken
Buffered(p, f) == IF tasks[p][f].state = "sent" THEN 1 ELSE 0

\* the receiver of the channel of f is at the select that reads it
Receiving(p, f) == pc[p] = (IF f = "mev" THEN "mevWait" ELSE "wait")

\* a channel without a buffer: a send needs the receiver
CanSend_Unbuffered(p, f) == Receiving(p, f)

\* a send on a channel proceeds when a slot is free or the receiver waits
CanSend(p, f) == Buffered(p, f) < ChanCap \/ Receiving(p, f)

\* a goroutine reaches its one send statement: the value goes into the
\* channel and the goroutine ends, or the send cannot proceed and the
\* goroutine stays at it ("blocked"); `late` records that the timer had
\* fired by then
TaskDone(p, f, v) ==
    /\ tasks[p][f].state = "running"
    /\ tasks' = [tasks EXCEPT ![p][f] =
                    [state |-> IF CanSend(p, f) THEN "sent" ELSE "blocked",
                     value |-> v, late |-> TimerFired(p, f)]]
    /\ ret' = NoRet
    /\ UNCHANGED <<builds, mu, now, healthVars, cacheVars, procVars, mempoolVars>>

AllGot(loc) == \A f \in FetchNames : loc.got[f]

\* lines 253-267, a channel case of the select: the value is kept
WaitReceive(p, f) ==
    /\ pc[p] = "wait"
    /\ tasks[p][f].state = "sent"
    /\ LET loc == [local[p] EXCEPT !.got[f] = TRUE,
                                   !.val[f] = tasks[p][f].value] IN
        /\ local' = [local EXCEPT ![p] = loc]
        /\ pc' = [pc EXCEPT ![p] = IF AllGot(loc) THEN "assemble" ELSE "wait"]
    /\ tasks' = [tasks EXCEPT ![p][f].state = "received"]
    /\ ret' = NoRet
    /\ UNCHANGED <<builds, mu, now, healthVars, cacheVars, mempoolVars>>

\* lines 263-265, the timeout case of the select: every flag is set, the
\* values stay as they are
WaitTimeout(p) ==
    /\ pc[p] = "wait"
    /\ Fired(local[p].waitStart, softDeadline)
    /\ local' = [local EXCEPT ![p].got = [f \in FetchNames |-> TRUE],
                              ![p].timedOut = TRUE]
    /\ pc' = [pc EXCEPT ![p] = "assemble"]
    /\ ret' = NoRet
    /\ UNCHANGED <<taskVars, mu, now, healthVars, cacheVars, mempoolVars>>

\* lines 270-280: a nil list is shown as an empty list
ShownList(v) == IF v = "nil" THEN "empty" ELSE v

\* lines 282-294: a field of beaconData exists only for bytes that are not
\* empty and that decode
ShownRaw(v) == IF v = "data" THEN v ELSE "absent"

\* what the response shows for the value v of fetch f
Shown(f, v) == IF f \in {"rec", "del"} THEN ShownList(v) ELSE ShownRaw(v)

\* lines 296-303 (sourcesInfo is the configuration, the same in every
\* response)
Response(loc) ==
    [timestamp |-> now, limit |-> loc.limit, mempool |-> loc.mp,
     relays |-> [received  |-> Shown("rec", loc.val["rec"]),
                 delivered |-> Shown("del", loc.val["del"])],
     beacon |-> [headers  |-> Shown("hdr", loc.val["hdr"]),
                 finality |-> Shown("fin", loc.val["fin"])],
     mev |-> "absent"]

\* lines 269-330: the response is assembled; with sandwich=1 the analysis
\* goroutine and its timer start.  The four channels are read no more:
\* `fetches` is what the model keeps of the four fetch goroutines.
Assembled(p, fetches) ==
    /\ pc[p] = "assemble"
    /\ local' = [local EXCEPT ![p].response = Response(local[p]),
                              ![p].mevStart = now]
    /\ IF local[p].sandwich
       THEN /\ pc' = [pc EXCEPT ![p] = "mevWait"]
            /\ tasks' = [tasks EXCEPT ![p] =
                            [fetches EXCEPT !["mev"].state = "running"]]
       ELSE /\ pc' = [pc EXCEPT ![p] = "respond"]
            /\ tasks' = [tasks EXCEPT ![p] = fetches]
    /\ ret' = NoRet
    /\ UNCHANGED <<builds, mu, now, healthVars, cacheVars, mempoolVars>>

\* the fetch goroutines that have not ended are left out of the state: what
\* they send is read by nobody
Assemble(p) == Assembled(p, NoTasks)

\* lines 331-333
MevReceive(p) ==
    /\ pc[p] = "mevWait"
    /\ tasks[p]["mev"].state = "sent"
    /\ local' = [local EXCEPT ![p].response.mev = tasks[p]["mev"].value]
    /\ tasks' = [tasks EXCEPT ![p]["mev"].state = "received"]
    /\ pc' = [pc EXCEPT ![p] = "respond"]
    /\ ret' = NoRet
    /\ UNCHANGED <<builds, mu, now, healthVars, cacheVars, mempoolVars>>

\* lines 334-335
MevTimeout(p) ==
    /\ pc[p] = "mevWait"
    /\ Fired(local[p].mevStart, mevTimeout)
    /\ local' = [local EXCEPT ![p].response.mev = "mev analysis timeout"]
    /\ pc' = [pc EXCEPT ![p] = "respond"]
    /\ ret' = NoRet
    /\ UNCHANGED <<taskVars, mu, now, healthVars, cacheVars, mempoolVars>>

\* a serializer that cannot encode an error marker
Marshal_RejectsMarkers(response) ==
    [err |-> IF response.mev \in {"absent", "analysis"}
             THEN Nil ELSE "unsupported value",
     bytes |-> [data |-> response]]

\* json.Marshal(eduEnvelope{Data: response}): the response holds only
\* decoded JSON, strings, numbers and the MempoolData struct, so Marshal
\* returns bytes and no error
Marshal(response) == [err |-> Nil, bytes |-> [data |-> response]]

\* lines 339-354: serialize once, cache the bytes, write them; a Marshal
\* error is answered with 500 and nothing is cached
Responded(p, fetches) ==
    LET m    == Marshal(local[p].response)
        body == m.bytes
        e    == [body |-> body, expires |-> ZeroTime] IN
    /\ pc[p] = "respond"
    /\ IF m.err # Nil
       THEN /\ ret' = [op |-> "handleSnapshot", proc |-> p,
                       key |-> local[p].key, status |-> 500,
                       body |-> [error |-> "SNAPSHOT_MARSHAL"],
                       cached |-> FALSE, at |-> now]
            /\ UNCHANGED <<memo, lastSet>>
       ELSE /\ memo' = Stored("snapshot", local[p].key, e, snapshotTTL)
            /\ lastSet' = Noted("snapshot", local[p].key, e, snapshotTTL)
            /\ ret' = [op |-> "handleSnapshot", proc |-> p,
                       key |-> local[p].key, status |-> 200, body |-> body,
                       cached |-> FALSE, at |-> now]
    /\ pc' = [pc EXCEPT ![p] = "idle"]
    /\ local' = [local EXCEPT ![p] = NoLocal]
    /\ tasks' = [tasks EXCEPT ![p] = fetches]
    /\ UNCHANGED <<builds, mu, now, healthVars, mempoolVars>>

Respond(p) == Responded(p, NoTasks)

\* a select with a case that can proceed proceeds before the clock shows
\* the next tick; a goroutine that is computing takes no tick
Blocked(p) ==
    \/ pc[p] = "idle"
    \/ /\ pc[p] = "wait"
       /\ ~Fired(local[p].waitStart, softDeadline)
       /\ \A f \in FetchNames : tasks[p][f].state # "sent"
    \/ /\ pc[p] = "mevWait"
       /\ ~Fired(local[p].mevStart, mevTimeout)
       /\ tasks[p]["mev"].state # "sent"

SnapTick ==
    /\ \A p \in Procs : Blocked(p)
    /\ Tick(MaxSnapTime)
    /\ ret' = NoRet
    /\ UNCHANGED <<taskVars, mu, healthVars, cacheVars, procVars, mempoolVars>>

\* the goroutine that serves the requests
Handlers == {"g1"}

\* requests one at a time; a goroutine that was abandoned at a deadline
\* sends into a channel nobody reads, which changes nothing a request sees
SnapshotNext ==
    \/ \E p \in Handlers, l \in Limits, sw \in BOOLEAN, b \in BlockTags :
            Solo(p) /\ handleSnapshot(p, l, sw, b)
    \/ \E p \in Procs : SnapshotEvict(p)
    \/ \E p \in Procs, f \in FetchNames : \E v \in FetchValues(f) :
            pc[p] = "wait" /\ TaskDone(p, f, v)
    \/ \E p \in Procs, v \in MevValues :
            pc[p] = "mevWait" /\ TaskDone(p, "mev", v)
    \/ \E p \in Procs, f \in FetchNames : WaitReceive(p, f)
    \/ \E p \in Procs : WaitTimeout(p)
    \/ \E p \in Procs : Assemble(p)
    \/ \E p \in Procs : MevReceive(p)
    \/ \E p \in Procs : MevTimeout(p)
    \/ \E p \in Procs : Respond(p)
    \/ SnapTick

\* the bytes a request with these parameters left in the cache when each
\* of its goroutines delivered data in the instant the run starts
ServedEarlier(limit, includeSandwich, blockTag) ==
    LET loc == [SnapLocal(limit, includeSandwich, blockTag) EXCEPT
                    !.val = [f \in FetchNames |-> "data"]] IN
    Marshal([Response(loc) EXCEPT
                !.mev = IF includeSandwich THEN "analysis" ELSE "absent"]).bytes

\* the first request of a run finds the snapshot cache empty, or holding
\* what one earlier request left
InitSnapshot ==
    /\ now = StartTime
    /\ health = [s \in Sources |-> NewBaseDataSource]
    /\ sourcesReady = FALSE
    /\ event = [op |-> "none"]
    /\ pc = [p \in Procs |-> "idle"]
    /\ local = [p \in Procs |-> NoLocal]
    /\ ret = NoRet
    /\ mempoolData = [PendingTxs |-> <<>>, Count |-> 0, LastUpdate |-> 0,
                      Source |-> "ws"]
    /\ resolved = <<>>
    /\ watcher = NewWatcher
    /\ heap = [id \in ArrayIds |-> <<>>]
    /\ backing = 1
    /\ mempoolMutex = [writer |-> FALSE, readers |-> {}]
    /\ held = NoRet
    /\ tasks = [p \in Procs |-> NoTasks]
    /\ builds = 0
    /\ mu = NoAccess
    /\ \E earlier \in SUBSET (Limits \X BOOLEAN \X BlockTags) :
        /\ Cardinality(earlier) <= 1
        /\ memo = [c \in Caches |->
                    IF c = "snapshot"
                    THEN [k \in earlier |->
                            [body |-> ServedEarlier(k[1], k[2], k[3]),
                             expires |-> now + snapshotTTL]]
                    ELSE EmptyMap]
        /\ lastSet = [c \in Caches |->
                    IF c = "snapshot"
                    THEN [k \in earlier |->
                            [body |-> ServedEarlier(k[1], k[2], k[3]),
                             at |-> now, ttl |-> snapshotTTL]]
                    ELSE EmptyMap]

SpecSnapshot == InitSnapshot /\ [][SnapshotNext]_vars

\* the goroutine p starts a handleSnapshot for the key k in this step
SnapshotStarts(p, k) ==
    /\ pc[p] = "idle"
    /\ \/ ret'.op = "handleSnapshot" /\ ret'.proc = p /\ ret'.key = k
       \/ pc'[p] \in {"wait", "snapEvict"} /\ local'[p].key = k

\* a handleSnapshot that built its answer returns in this step
SnapshotBuilt(p) == pc[p] = "respond" /\ pc'[p] = "idle"

WaitEnds(p) == pc[p] = "wait" /\ pc'[p] = "assemble"

\* the field of a response that shows the fetch f
Field(response, f) ==
    CASE f = "rec" -> response.relays.received
      [] f = "del" -> response.relays.delivered
      [] f = "hdr" -> response.beacon.headers
      [] f = "fin" -> response.beacon.finality

\* C13: the wait ends only when all four fetches have been received or the
\* soft deadline has fired, and no later than the deadline; a value that
\* was sent before the deadline fired has been received when the wait
\* ends, a fetch that has sent nothing leaves nil; the response shows each
\* received value as the code renders it (a list, or the decoded bytes)
\* and an empty list or no field for nil; and the request that built a
\* snapshot is answered with success.
C13_WaitEndsAtAllOrDeadline ==
    [][\A p \in Procs :
        /\ WaitEnds(p)
            => /\ \/ \A f \in FetchNames : tasks'[p][f].state = "received"
                  \/ now - local[p].waitStart >= softDeadline
               /\ now - local[p].waitStart <= softDeadline
               /\ \A f \in FetchNames :
                    /\ (tasks'[p][f].state = "sent" => tasks'[p][f].late)
                    /\ (tasks'[p][f].state = "received"
                            => local'[p].val[f] = tasks'[p][f].value)
                    /\ (tasks'[p][f].state \in {"running", "sent"}
                            => local'[p].val[f] = "nil")
        /\ SnapshotBuilt(p)
            => /\ ret'.status = 200
               /\ \A f \in {"rec", "del"} :
                    Field(ret'.body.data, f) =
                        IF local[p].val[f] = "nil" THEN "empty"
                        ELSE local[p].val[f]
               /\ \A f \in {"hdr", "fin"} :
                    Field(ret'.body.data, f) =
                        IF local[p].val[f] = "data" THEN "data"
                        ELSE "absent"]_vars

\* C13 witness: a snapshot was returned whose wait ended at the deadline
\* with the received-blocks fetch delivered and the headers fetch not
C13_Witness ==
    /\ ret.op = "handleSnapshot" /\ ~ret.cached /\ ret.status = 200
    /\ ret.body.data.relays.received = "data"
    /\ ret.body.data.relays.delivered = "empty"
    /\ ret.body.data.beacon.headers = "absent"
    /\ ret.body.data.beacon.finality = "data"
    /\ ret.body.data.timestamp = StartTime + softDeadline

\* the wait of p for the analysis ends in this step
MevWaitEnds(p) == pc[p] = "mevWait" /\ pc'[p] = "respond"

\* C14: when the wait for the analysis ends and the analysis goroutine has
\* sent nothing, the deadline has fired and the mev field is the timeout
\* marker; a result sent before the deadline fired is the mev field, so a
\* failed block fetch shows as its error marker; the other fields of the
\* response stay as assembled, and the snapshot is returned with success
\* and exactly that response.
C14_AnalysisTimeoutIsMarker ==
    [][\A p \in Procs :
        /\ MevWaitEnds(p)
            => /\ tasks[p]["mev"].state = "running"
                    => /\ now - local[p].mevStart >= mevTimeout
                       /\ local'[p].response.mev = "mev analysis timeout"
               /\ (tasks[p]["mev"].state = "sent" /\ ~tasks[p]["mev"].late)
                    => local'[p].response.mev = tasks[p]["mev"].value
               /\ local'[p].response.mev \in
                    MevValues \cup {"mev analysis timeout"}
               /\ [local'[p].response EXCEPT !.mev = "absent"]
                    = local[p].response
        /\ SnapshotBuilt(p)
            => /\ ret'.status = 200
               /\ ret'.body.data = local[p].response
               /\ local[p].sandwich = (ret'.body.data.mev # "absent")]_vars

\* C14 witness: a snapshot with the timeout marker was returned, with the
\* data of its fetches
C14_Witness ==
    /\ ret.op = "handleSnapshot" /\ ret.status = 200
    /\ ret.body.data.mev = "mev analysis timeout"
    /\ ret.body.data.relays.delivered = "data"

---------------------------------------------------------------------------
(* The swap extractor: collectSwaps (sandwich.go:164-213).                 *)
(* The function is taken with its inputs: the block, the answer of the     *)
(* node to each fetchReceipt it makes, and the scan cap.  sort.Slice is    *)
(* not a stable sort: it may return any arrangement of the slice that is   *)
(* ordered by the less function, so the extractor is modelled by the set   *)
(* of results it can return.                                               *)

\* number of transactions of a block
MaxTxs == 3
\* number of logs of a receipt
MaxLogs == 2

\* sandwichMaxTx, scaled to the blocks of the model
sandwichMaxTx == 2

\* strings.ToLower on the strings of the model
ToLower(str) ==
    CASE str = "H1" -> "h1"
      [] str = "A" -> "a"
      [] str = "P" -> "p"
      [] str = "SwapV2" -> "swapv2"
      [] OTHER -> str

\* swapTopicV2 and swapTopicV3, lower case
swapTopicV2 == "swapv2"
swapTopicV3 == "swapv3"

\* the transactions of the chain, in block order: hash and sender as the
\* node spells them
ChainTxs == <<[Hash |-> "H1", From |-> "A"], [Hash |-> "h2", From |-> "b"],
              [Hash |-> "h3", From |-> "A"], [Hash |-> "h4", From |-> "b"]>>

\* the blocks fetchBlockFull can return
Blocks == {SubSeq(ChainTxs, 1, n) : n \in 0..MaxTxs}

\* the logs of the model: a V2 swap in pool p spelled in mixed case, a V3
\* swap in pool q, a log of another event, and a log without topics
Logs == {[Address |-> "P", Topics |-> <<"SwapV2", "sender">>],
         [Address |-> "q", Topics |-> <<"swapv3">>],
         [Address |-> "q", Topics |-> <<"transfer">>],
         [Address |-> "q", Topics |-> <<>>]}

\* sequences over S of length 0..n
RECURSIVE SeqsUpTo(_, _)
SeqsUpTo(S, n) ==
    IF n = 0 THEN {<<>>}
    ELSE LET shorter == SeqsUpTo(S, n - 1) IN
         shorter \cup {Append(q, x) : q \in shorter, x \in S}

\* what fetchReceipt returns: an error (or a nil receipt), or a receipt
NoReceipt == [ok |-> FALSE, Logs |-> <<>>]
Receipts  == {NoReceipt} \cup
             {[ok |-> TRUE, Logs |-> l] : l \in SeqsUpTo(Logs, MaxLogs)}

\* a scan without the cap
ScanLimit_WholeBlock(b) == Len(b)

\* lines 166-169
ScanLimit(b) == IF sandwichMaxTx < Len(b) THEN sandwichMaxTx ELSE Len(b)

\* the hashes collectSwaps asks the node about
Scanned(b) == {b[i].Hash : i \in 1..ScanLimit(b)}

\* lines 181-200: the swaps of the logs j.. of the receipt of transaction
\* idx (both counted from 0, as in the code)
RECURSIVE ScanLogs(_, _, _, _)
ScanLogs(tx, idx, logs, j) ==
    IF j >= Len(logs) THEN <<>>
    ELSE LET lg == logs[j + 1] IN
         IF Len(lg.Topics) = 0
         THEN ScanLogs(tx, idx, logs, j + 1)
         ELSE IF /\ ToLower(lg.Topics[1]) # swapTopicV2
                 /\ ToLower(lg.Topics[1]) # swapTopicV3
         THEN ScanLogs(tx, idx, logs, j + 1)
         ELSE <<[TxHash |-> ToLower(tx.Hash), TxFrom |-> ToLower(tx.From),
                 Pool |-> ToLower(lg.Address), TxIndex |-> idx,
                 LogIndex |-> j]>>
              \o ScanLogs(tx, idx, logs, j + 1)

\* a scan that ends at the first receipt it cannot get
AfterFailedReceipt_Breaks(idx, maxN) == maxN

\* lines 176-178: `continue`, the loop goes on with the next transaction
AfterFailedReceipt(idx, maxN) == idx + 1

\* lines 172-201: the swaps of the transactions idx.. below maxN
RECURSIVE ScanTxs(_, _, _, _)
ScanTxs(b, rc, idx, maxN) ==
    IF idx >= maxN THEN <<>>
    ELSE LET tx == b[idx + 1] IN
         IF ~rc[tx.Hash].ok
         THEN ScanTxs(b, rc, AfterFailedReceipt(idx, maxN), maxN)
         ELSE ScanLogs(tx, idx, rc[tx.Hash].Logs, 0)
              \o ScanTxs(b, rc, idx + 1, maxN)

\* a less function that looks at the transaction only
Less_TxIndexOnly(x, y) == x.TxIndex < y.TxIndex

\* lines 205-210
Less(x, y) ==
    IF x.TxIndex = y.TxIndex THEN x.LogIndex < y.LogIndex
    ELSE x.TxIndex < y.TxIndex

\* the sequence without its i-th element
Without(seq, i) == SubSeq(seq, 1, i - 1) \o SubSeq(seq, i + 1, Len(seq))

\* sort.Slice(swaps, less): the arrangements of swaps in which no element
\* is less than an element before it -- an element that none is less
\* than, followed by such an arrangement of the others
RECURSIVE Sorted(_)
Sorted(swaps) ==
    IF swaps = <<>> THEN {<<>>}
    ELSE UNION {{<<swaps[i]>> \o rest : rest \in Sorted(Without(swaps, i))} :
                  i \in {k \in 1..Len(swaps) :
                            \A j \in 1..Len(swaps) :
                                ~Less(swaps[j], swaps[k])}}

\* collectSwaps(b) when the node answers fetchReceipt as rc says: the
\* slices it can return (the error it returns is always nil)
collectSwaps(b, rc) == Sorted(ScanTxs(b, rc, 0, ScanLimit(b)))

\* a run of collectSwaps that goroutine q remembers
RanCollect(q) == local[q].op = "collectSwaps"

\* one run of collectSwaps
CollectSwaps(p, b, rc) ==
    /\ pc[p] = "idle"
    /\ \E swaps \in collectSwaps(b, rc) :
          /\ local' = [local EXCEPT ![p] =
                          [op |-> "collectSwaps", block |-> b,
                           receipts |-> rc, swaps |-> swaps]]
          /\ ret' = [op |-> "collectSwaps", proc |-> p, swaps |-> swaps,
                     err |-> Nil]
    /\ UNCHANGED <<taskVars, mu, now, healthVars, cacheVars, pc, mempoolVars>>

\* the runs of one behaviour are runs on the same block with the same
\* answers of the node: the first run draws them, the later runs repeat them
CollectNext ==
    \/ /\ \A q \in Procs : ~RanCollect(q)
       /\ \E p \in Procs, b \in Blocks : \E rc \in [Scanned(b) -> Receipts] :
            CollectSwaps(p, b, rc)
    \/ \E p, q \in Procs :
            /\ RanCollect(q)
            /\ CollectSwaps(p, local[q].block, local[q].receipts)

SpecCollect == Init /\ [][CollectNext]_vars

\* C15: two runs of collectSwaps on the same block, with the same answer
\* (receipt or failure) to every receipt fetch and the same scan cap,
\* return the same sequence of swap events.
C15_SameInputSameSwaps ==
    \A p, q \in Procs :
        (/\ RanCollect(p) /\ RanCollect(q)
         /\ local[p].block = local[q].block
         /\ local[p].receipts = local[q].receipts)
        => local[p].swaps = local[q].swaps

\* C15 witness: two runs on a block of three transactions, of which the cap
\* lets two be scanned, one receipt fetch failed and the other receipt
\* holds two swaps; both runs returned those two swaps
C15_Witness ==
    /\ RanCollect("g1") /\ RanCollect("g2")
    /\ Len(local["g1"].block) = 3
    /\ ~local["g1"].receipts["H1"].ok
    /\ Len(local["g1"].swaps) = 2
    /\ local["g1"].swaps[1].TxIndex = 1
    /\ local["g1"].swaps[1].LogIndex < local["g1"].swaps[2].LogIndex
    /\ local["g2"].swaps = local["g1"].swaps

\* the log lg is a swap event of one of the two kinds
IsSwapLog(lg) ==
    /\ Len(lg.Topics) > 0
    /\ ToLower(lg.Topics[1]) \in {swapTopicV2, swapTopicV3}

\* the position of a swap event in the block
Position(sw) == <<sw.TxIndex, sw.LogIndex>>

\* the position x lies before the position y
PositionBefore(x, y) == x[1] < y[1] \/ (x[1] = y[1] /\ x[2] < y[2])

\* C28: the list collectSwaps returns is strictly ascending in (txIndex,
\* logIndex), so no two of its events share a position; every event stands
\* for the swap log at its position, of a transaction of the block whose
\* index is below the scan cap and whose receipt was fetched; and every
\* such log is in the list.
C28_SwapsStrictlyAscending ==
    ret.op = "collectSwaps"
    => LET swaps == ret.swaps
           b     == local[ret.proc].block
           rc    == local[ret.proc].receipts IN
       /\ \A i \in 1..(Len(swaps) - 1) :
            PositionBefore(Position(swaps[i]), Position(swaps[i + 1]))
       /\ \A i, j \in 1..Len(swaps) :
            Position(swaps[i]) = Position(swaps[j]) => i = j
       /\ \A i \in 1..Len(swaps) :
            LET sw == swaps[i]
                tx == b[sw.TxIndex + 1] IN
            /\ sw.TxIndex >= 0 /\ sw.TxIndex < Len(b)
            /\ sw.TxIndex < sandwichMaxTx
            /\ rc[tx.Hash].ok
            /\ sw.LogIndex >= 0 /\ sw.LogIndex < Len(rc[tx.Hash].Logs)
            /\ IsSwapLog(rc[tx.Hash].Logs[sw.LogIndex + 1])
            /\ sw.TxHash = ToLower(tx.Hash)
            /\ sw.TxFrom = ToLower(tx.From)
            /\ sw.Pool = ToLower(rc[tx.Hash].Logs[sw.LogIndex + 1].Address)
       /\ \A idx \in 0..(Len(b) - 1) :
            (idx < sandwichMaxTx /\ rc[b[idx + 1].Hash].ok)
            => \A j \in 0..(Len(rc[b[idx + 1].Hash].Logs) - 1) :
                 IsSwapLog(rc[b[idx + 1].Hash].Logs[j + 1])
                 => \E i \in 1..Len(swaps) : Position(swaps[i]) = <<idx, j>>

\* C28 witness: a block of three transactions, of which the cap lets two
\* be scanned, gave four swaps, two of each scanned transaction
C28_Witness ==
    /\ ret.op = "collectSwaps"
    /\ Len(local[ret.proc].block) = 3
    /\ Len(ret.swaps) = 4
    /\ ret.swaps[2].TxIndex = 0 /\ ret.swaps[2].LogIndex = 1
    /\ ret.swaps[3].TxIndex = 1 /\ ret.swaps[3].LogIndex = 0

\* a log of an event that is no swap
PlainLog == [Address |-> "q", Topics |-> <<"transfer">>]

\* the answers of the node with nothing to skip: an empty receipt in place
\* of each receipt that could not be fetched or decoded, and a log of
\* another event in place of each log without topics
WithoutSkips(rc) ==
    [h \in DOMAIN rc |->
        IF ~rc[h].ok THEN [ok |-> TRUE, Logs |-> <<>>]
        ELSE [ok |-> TRUE,
              Logs |-> [j \in 1..Len(rc[h].Logs) |->
                          IF rc[h].Logs[j].Topics = <<>> THEN PlainLog
                          ELSE rc[h].Logs[j]]]]

\* C32: collectSwaps returns no error, and what it returns is what it
\* returns when every receipt it could not get is an empty receipt and
\* every log without topics is a log of another event: the transactions
\* after a skipped one are scanned up to the cap and the swaps of all
\* other transactions and logs are returned at their positions.
C32_SkipsAreSilent ==
    ret.op = "collectSwaps"
    => LET b  == local[ret.proc].block
           rc == local[ret.proc].receipts IN
       /\ ret.err = Nil
       /\ ret.swaps \in collectSwaps(b, WithoutSkips(rc))
       /\ \A idx \in 0..(Len(b) - 1) :
            (idx < sandwichMaxTx /\ ~rc[b[idx + 1].Hash].ok)
            => /\ \A i \in 1..Len(ret.swaps) : ret.swaps[i].TxIndex # idx
               /\ \A later \in (idx + 1)..(Len(b) - 1) :
                    (/\ later < sandwichMaxTx
                     /\ rc[b[later + 1].Hash].ok
                     /\ \E j \in 1..Len(rc[b[later + 1].Hash].Logs) :
                            IsSwapLog(rc[b[later + 1].Hash].Logs[j]))
                    => \E i \in 1..Len(ret.swaps) :
                            ret.swaps[i].TxIndex = later

\* C32 witness: the first receipt could not be fetched, the second holds a
\* log without topics and then a swap; the swap was returned with its
\* position and no error
C32_Witness ==
    /\ ret.op = "collectSwaps" /\ ret.err = Nil
    /\ Len(local[ret.proc].block) = 2
    /\ ~local[ret.proc].receipts["H1"].ok
    /\ local[ret.proc].receipts["h2"].ok
    /\ Len(local[ret.proc].receipts["h2"].Logs) = 2
    /\ local[ret.proc].receipts["h2"].Logs[1].Topics = <<>>
    /\ Len(ret.swaps) = 1
    /\ ret.swaps[1].TxIndex = 1 /\ ret.swaps[1].LogIndex = 1

---------------------------------------------------------------------------
(* The sandwich detector: detectSandwiches (sandwich.go:227-274).          *)
(* The pools are visited in the order `range` yields the keys of a map,    *)
(* which the language leaves open, so the detector is modelled by the set  *)
(* of results it can return.                                               *)

\* number of swaps handed to the detector
MaxSwaps == 6

\* one group for the whole list, under the pool of its first swap
Grouped_Ungrouped(swaps) ==
    [pool \in {swaps[i].Pool : i \in {k \in 1..Len(swaps) : k = 1}} |-> swaps]

\* lines 229-232: the swaps of each pool, in the order of the input
Grouped(swaps) ==
    [pool \in {swaps[i].Pool : i \in 1..Len(swaps)} |->
        SelectSeq(swaps, LAMBDA sw : sw.Pool = pool)]

\* a scan that does not skip the swaps of a match
AfterMatch_NoSkip(i) == i

\* a scan that skips the victim of a match only
AfterMatch_SkipsOne(i) == i + 1

\* line 268: i += 2
AfterMatch(i) == i + 2

\* a test that does not look at the sender in the middle
Pattern_AnyVictim(pre, victim, post) == pre.TxFrom = post.TxFrom

\* line 256
Pattern(pre, victim, post) ==
    pre.TxFrom = post.TxFrom /\ pre.TxFrom # victim.TxFrom

\* lines 239-270: the loop over one pool from index i (counted from 0); the
\* loop statement adds one to i after every round
RECURSIVE ScanPool(_, _, _, _)
ScanPool(pool, seq, i, blockNum) ==
    IF ~(i + 2 < Len(seq)) THEN <<>>
    ELSE LET pre    == seq[i + 1]
             victim == seq[i + 2]
             post   == seq[i + 3] IN
         IF pre.Pool # victim.Pool \/ victim.Pool # post.Pool
         THEN ScanPool(pool, seq, i + 1, blockNum)
         ELSE IF pre.TxFrom = "" \/ post.TxFrom = "" \/ victim.TxFrom = ""
         THEN ScanPool(pool, seq, i + 1, blockNum)
         ELSE IF Pattern(pre, victim, post)
         THEN <<[Pool |-> pool, Attacker |-> pre.TxFrom,
                 Victim |-> victim.TxFrom, PreTx |-> pre.TxHash,
                 VictimTx |-> victim.TxHash, PostTx |-> post.TxHash,
                 Block |-> blockNum]>>
              \o ScanPool(pool, seq, AfterMatch(i) + 1, blockNum)
         ELSE ScanPool(pool, seq, i + 1, blockNum)

\* the orders in which `range grouped` can yield the pools
PoolOrders(pools) ==
    {ord \in [1..Cardinality(pools) -> pools] :
        \A i, j \in DOMAIN ord : ord[i] = ord[j] => i = j}

\* lines 237-271: the sandwiches of the pools ord[k].., appended in turn
RECURSIVE ScanPools(_, _, _, _)
ScanPools(grouped, ord, k, blockNum) ==
    IF k > Len(ord) THEN <<>>
    ELSE ScanPool(ord[k], grouped[ord[k]], 0, blockNum)
         \o ScanPools(grouped, ord, k + 1, blockNum)

\* detectSandwiches(swaps, blockNum): the slices it can return
detectSandwiches(swaps, blockNum) ==
    {ScanPools(Grouped(swaps), ord, 1, blockNum) :
        ord \in PoolOrders(DOMAIN Grouped(swaps))}

\* the senders of the swaps handed to the detector; "" is a transaction
\* the node reported without a sender
Senders == {"a", "b", "c", ""}

SwapHashes == <<"h1", "h2", "h3", "h4", "h5", "h6", "h7">>

\* the swaps of one pool with these senders, one swap per transaction, as
\* collectSwaps returns them
PoolSwaps(pool, senders) ==
    [i \in 1..Len(senders) |->
        [TxHash |-> SwapHashes[i], TxFrom |-> senders[i], Pool |-> pool,
         TxIndex |-> i - 1, LogIndex |-> 0]]

\* b.Number of the block the swaps come from
BlockNumber == "0x10"

\* a run of detectSandwiches that goroutine q remembers
RanDetect(q) == local[q].op = "detectSandwiches"

\* one run of detectSandwiches
DetectSandwiches(p, swaps, blockNum) ==
    /\ pc[p] = "idle"
    /\ \E out \in detectSandwiches(swaps, blockNum) :
          /\ ret' = [op |-> "detectSandwiches", proc |-> p, swaps |-> swaps,
                     block |-> blockNum, sandwiches |-> out]
          /\ local' = [local EXCEPT ![p] =
                          [op |-> "detectSandwiches", swaps |-> swaps,
                           block |-> blockNum, sandwiches |-> out]]
    /\ UNCHANGED <<taskVars, mu, now, healthVars, cacheVars, pc, mempoolVars>>

\* the detector on the ordered swaps of one pool: the first run draws the
\* swaps, the later runs repeat them
DetectNext ==
    \/ /\ \A q \in Procs : ~RanDetect(q)
       /\ \E p \in Procs, senders \in SeqsUpTo(Senders, MaxSwaps) :
            DetectSandwiches(p, PoolSwaps("p", senders), BlockNumber)
    \/ \E p, q \in Procs :
            /\ RanDetect(q)
            /\ DetectSandwiches(p, local[q].swaps, local[q].block)

SpecDetect == Init /\ [][DetectNext]_vars

\* the window (pre, victim, post) is a sandwich
IsSandwich(pre, victim, post) ==
    /\ pre.TxFrom # "" /\ victim.TxFrom # "" /\ post.TxFrom # ""
    /\ pre.TxFrom = post.TxFrom
    /\ pre.TxFrom # victim.TxFrom

\* the left-to-right scan of the claim, from position i (counted from 1):
\* the window (i, i+1, i+2) is tested; on a match the scan resumes at i+3,
\* otherwise at i+1
RECURSIVE WindowScan(_, _)
WindowScan(seq, i) ==
    IF i + 2 > Len(seq) THEN <<>>
    ELSE IF IsSandwich(seq[i], seq[i + 1], seq[i + 2])
    THEN <<[Pool |-> seq[i].Pool, Attacker |-> seq[i].TxFrom,
            Victim |-> seq[i + 1].TxFrom, PreTx |-> seq[i].TxHash,
            VictimTx |-> seq[i + 1].TxHash, PostTx |-> seq[i + 2].TxHash,
            Block |-> BlockNumber]>>
         \o WindowScan(seq, i + 3)
    ELSE WindowScan(seq, i + 1)

\* the senders of a sequence of swaps
SendersOf(swaps) == [i \in 1..Len(swaps) |-> swaps[i].TxFrom]

\* C16: on the ordered swaps of one pool detectSandwiches returns exactly
\* the matches of the left-to-right window scan; [A,B,A] gives one sandwich
\* with attacker A and victim B, [A,B,C] gives none, and [A,B,A,B,A] gives
\* one, made of the first three swaps.
C16_DetectIsWindowScan ==
    ret.op = "detectSandwiches"
    => /\ ret.sandwiches = WindowScan(ret.swaps, 1)
       /\ SendersOf(ret.swaps) = <<"a", "b", "a">>
            => /\ Len(ret.sandwiches) = 1
               /\ ret.sandwiches[1].Attacker = "a"
               /\ ret.sandwiches[1].Victim = "b"
       /\ SendersOf(ret.swaps) = <<"a", "b", "c">>
            => ret.sandwiches = <<>>
       /\ SendersOf(ret.swaps) = <<"a", "b", "a", "b", "a">>
            => /\ Len(ret.sandwiches) = 1
               /\ ret.sandwiches[1].PreTx = "h1"
               /\ ret.sandwiches[1].VictimTx = "h2"
               /\ ret.sandwiches[1].PostTx = "h3"

\* C16 witness: the detector ran on [A,B,A,B,A] and reported one sandwich
C16_Witness ==
    /\ ret.op = "detectSandwiches"
    /\ SendersOf(ret.swaps) = <<"a", "b", "a", "b", "a">>
    /\ Len(ret.sandwiches) = 1
    /\ ret.sandwiches[1].Attacker = "a"

\* the swaps a reported sandwich is made of; the swaps of one pool handed
\* to the detector come one from each transaction, so the hash names the
\* swap
SwapsOf(s) == {s.PreTx, s.VictimTx, s.PostTx}

\* the place of the swap of transaction h in the input
PlaceOf(swaps, h) == CHOOSE i \in 1..Len(swaps) : swaps[i].TxHash = h

\* C29: no swap is part of two reported sandwiches, the three swaps of a
\* sandwich are three different swaps, and each sandwich begins after the
\* last swap of the sandwich reported before it.
C29_NoSwapInTwoSandwiches ==
    ret.op = "detectSandwiches"
    => LET out == ret.sandwiches IN
       /\ \A k \in 1..Len(out) :
            /\ Cardinality(SwapsOf(out[k])) = 3
            /\ SwapsOf(out[k]) \subseteq
                    {ret.swaps[i].TxHash : i \in 1..Len(ret.swaps)}
       /\ \A k, l \in 1..Len(out) :
            k # l => SwapsOf(out[k]) \cap SwapsOf(out[l]) = {}
       /\ \A k \in 1..(Len(out) - 1) :
            PlaceOf(ret.swaps, out[k].PostTx)
                < PlaceOf(ret.swaps, out[k + 1].PreTx)

\* C29 witness: on [C,A,B,A,B] the swaps 2..4 were reported as a sandwich
\* and the swaps 3..5, which have the pattern too, were not
C29_Witness ==
    /\ ret.op = "detectSandwiches"
    /\ SendersOf(ret.swaps) = <<"c", "a", "b", "a", "b">>
    /\ IsSandwich(ret.swaps[3], ret.swaps[4], ret.swaps[5])
    /\ Len(ret.sandwiches) = 1
    /\ ret.sandwiches[1].PreTx = "h2"
    /\ ret.sandwiches[1].PostTx = "h4"

---------------------------------------------------------------------------
(* The detector on the swaps of a block with two pools.                    *)

\* a transaction of the block: its sender and the pools of its swap logs
TxShapes ==
    {[From |-> s, Pools |-> ps] :
        s \in {"a", "b", ""}, ps \in {<<"p">>, <<"q">>, <<"p", "q">>}}

\* the swaps of the transactions i.. of the block, as collectSwaps returns
\* them: in block order, the logs of a transaction in log order
RECURSIVE BlockSwaps(_, _)
BlockSwaps(txs, i) ==
    IF i > Len(txs) THEN <<>>
    ELSE [j \in 1..Len(txs[i].Pools) |->
            [TxHash |-> SwapHashes[i], TxFrom |-> txs[i].From,
             Pool |-> txs[i].Pools[j], TxIndex |-> i - 1, LogIndex |-> j - 1]]
         \o BlockSwaps(txs, i + 1)

\* the first run draws the block, the later runs repeat it
DetectPoolsNext ==
    \/ /\ \A q \in Procs : ~RanDetect(q)
       /\ \E p \in Procs, txs \in SeqsUpTo(TxShapes, MaxTxs) :
            DetectSandwiches(p, BlockSwaps(txs, 1), BlockNumber)
    \/ \E p, q \in Procs :
            /\ RanDetect(q)
            /\ DetectSandwiches(p, local[q].swaps, local[q].block)

SpecDetectPools == Init /\ [][DetectPoolsNext]_vars

\* the swaps of one pool, in the order of the list
InPool(swaps, pool) == SelectSeq(swaps, LAMBDA sw : sw.Pool = pool)

\* C30: every reported sandwich is made of three swaps that follow one
\* another in the sequence of the swaps of one pool; the first and the
\* third have the same sender, the second has another, none of the three
\* senders is empty, and attacker, victim, the three transaction hashes and
\* the pool of the report are those of the three swaps.
C30_SandwichIsConsecutiveTriple ==
    ret.op = "detectSandwiches"
    => \A k \in 1..Len(ret.sandwiches) :
        LET s   == ret.sandwiches[k]
            seq == InPool(ret.swaps, s.Pool) IN
        \E i \in 1..(Len(seq) - 2) :
            LET pre    == seq[i]
                victim == seq[i + 1]
                post   == seq[i + 2] IN
            /\ pre.Pool = s.Pool /\ victim.Pool = s.Pool /\ post.Pool = s.Pool
            /\ pre.TxFrom = post.TxFrom
            /\ pre.TxFrom # victim.TxFrom
            /\ pre.TxFrom # "" /\ victim.TxFrom # "" /\ post.TxFrom # ""
            /\ s.Attacker = pre.TxFrom /\ s.Victim = victim.TxFrom
            /\ s.PreTx = pre.TxHash /\ s.VictimTx = victim.TxHash
            /\ s.PostTx = post.TxHash
            /\ s.Block = ret.block

\* C30 witness: three transactions with a swap in each of the two pools; a
\* sandwich was reported in each pool, made of swaps that are not
\* neighbours in the list
C30_Witness ==
    /\ ret.op = "detectSandwiches"
    /\ Len(ret.swaps) = 6
    /\ Len(ret.sandwiches) = 2
    /\ ret.sandwiches[1].Pool # ret.sandwiches[2].Pool
    /\ ret.sandwiches[1].PreTx = "h1" /\ ret.sandwiches[1].PostTx = "h3"
    /\ ret.sandwiches[1].Attacker = "a" /\ ret.sandwiches[1].Victim = "b"

\* the pools of the swaps handed to the detector
Pools == {"p", "q"}

\* the sandwiches of a report that are in the pool
ReportedFor(out, pool) == {out[k] : k \in {j \in 1..Len(out) : out[j].Pool = pool}}

\* C31: the sandwiches reported for a pool are those the detector reports
\* when it is handed the swaps of that pool alone: the swaps of the other
\* pool, wherever they stand in the list, change nothing for this pool.
C31_PoolsAreIndependent ==
    ret.op = "detectSandwiches"
    => \A pool \in Pools :
        \A alone \in detectSandwiches(InPool(ret.swaps, pool), ret.block) :
            /\ ReportedFor(ret.sandwiches, pool) = ReportedFor(alone, pool)
            /\ \A other \in Pools \ {pool} : ReportedFor(alone, other) = {}

\* C31 witness: a sandwich was reported in pool p whose first two swaps
\* have a swap of pool q between them in the list
C31_Witness ==
    /\ ret.op = "detectSandwiches"
    /\ Len(ret.swaps) = 4
    /\ ret.swaps[1].Pool = "p" /\ ret.swaps[2].Pool = "q"
    /\ ret.swaps[3].Pool = "p" /\ ret.swaps[4].Pool = "p"
    /\ Len(ret.sandwiches) = 1
    /\ ret.sandwiches[1].Pool = "p"
    /\ ret.sandwiches[1].PreTx = "h1" /\ ret.sandwiches[1].VictimTx = "h2"

\* the first `limit` sandwiches, as buildSnapshot keeps them (s[:limit])
KeptSandwiches(s, limit) == IF Len(s) > limit THEN FirstN(s, limit) ELSE s

\* C38: for one list of swaps, every run of detectSandwiches returns the
\* same sequence of sandwiches, and so the first `limit` sandwiches kept
\* for the snapshot are the same on every run, whatever the limit.
C38_SameSandwichesOnEveryRun ==
    ret.op = "detectSandwiches"
    => \A q \in Procs :
        (RanDetect(q) /\ local[q].swaps = ret.swaps
                      /\ local[q].block = ret.block)
        => /\ local[q].sandwiches = ret.sandwiches
           /\ \A limit \in 1..MaxSwaps :
                KeptSandwiches(local[q].sandwiches, limit)
                    = KeptSandwiches(ret.sandwiches, limit)

\* the read loop has just dropped a notification
Skipped == watcher' # watcher /\ watcher'.skipped # ""

\* C39: in push mode a notification that cannot be resolved -- an empty
\* hash, a lookup that fails, a null result, a result that cannot be
\* decoded -- leaves the buffer, the count, the time of the last update and
\* the source label as they were and does not end the session: the watcher
\* reads the next notification on the same connection, with the reconnect
\* delay and the count of failed sessions untouched.
C39_UnresolvedNotificationIsSkipped ==
    [][Skipped =>
        /\ mempoolData' = mempoolData
        /\ resolved' = resolved
        /\ watcher'.mode = "push"
        /\ watcher'.pc = "read"
        /\ watcher'.backoff = watcher.backoff
        /\ watcher'.failures = watcher.failures
        /\ watcher'.delivered = watcher.delivered]_vars

\* C39 witness: a session that had put a transaction in the buffer dropped
\* a notification whose lookup result could not be decoded, and reads on
C39_Witness ==
    /\ watcher.mode = "push"
    /\ watcher.pc = "read"
    /\ watcher.skipped = "undecodable"
    /\ watcher.delivered
    /\ mempoolData.Source = "ws"
    /\ mempoolData.Count = 1

---------------------------------------------------------------------------
(* The reconnect loop of the push watcher (mempool_ws.go:95-116).          *)
(* time.Sleep(backoff) returns -- backoff is at most maxBackoff -- and the *)
(* loop has no exit, so a watcher that sleeps goes on to the next          *)
(* dialAndConsume: weak fairness of Redial.                                *)

SpecMempoolLive == Init /\ [][MempoolNext]_vars /\ WF_vars(Redial)

\* the places of a watcher that is inside the reconnect loop
InLoop == {"dial", "subscribe", "ack", "read", "resolve", "sleep"}

\* C17: in push mode every failed session (dial, subscribe write,
\* acknowledgement read or notification read failure) leaves the watcher
\* sleeping, a sleeping watcher eventually dials again, and the watcher
\* never leaves the reconnect loop.
C17_WatcherRedialsForever ==
    /\ [](watcher.mode = "push" => watcher.pc \in InLoop)
    /\ [][(watcher.mode = "push" /\ watcher.pc \in InLoop \ {"sleep"}
              /\ watcher'.pc \notin {"subscribe", "ack", "read", "resolve"}
              /\ watcher'.pc # watcher.pc)
            => watcher'.pc = "sleep"]_vars
    /\ (watcher.mode = "push" /\ watcher.pc = "sleep")
          ~> (watcher.pc = "dial")

\* C17 witness: a session delivered a transaction and failed, the next
\* dial failed, and the watcher dials again
C17_Witness ==
    /\ watcher.mode = "push" /\ watcher.pc = "dial"
    /\ mempoolData.Source = "ws-unavailable"
    /\ Len(resolved) >= 1

---------------------------------------------------------------------------
(* The disabled mode of the watcher (mempool_ws.go:60-81).                 *)

\* the placeholder transactions as they sit in the buffer: hashes 1..10 in
\* order, observation times going back from lastUpdate in steps of ten
IsPlaceholders(data) ==
    /\ Len(data.PendingTxs) = 10
    /\ \A i \in 1..10 :
          /\ data.PendingTxs[i].Hash = MockTxs[i].Hash
          /\ data.PendingTxs[i].Timestamp = data.LastUpdate - (i - 1) * 10

\* C18: in disabled mode the start writes the label "ws-disabled", count 10
\* and the ten placeholder transactions and returns; the watcher is then at
\* rest for good (no session loop, no dial), and no later step changes the
\* buffer, the count, lastUpdate or the source label.
C18_DisabledWritesOnceAndRests ==
    [][/\ (watcher.pc = "start" /\ watcher'.mode = "disabled")
            => /\ watcher'.pc = "off"
               /\ mempoolData'.Source = "ws-disabled"
               /\ mempoolData'.Count = 10
               /\ mempoolData'.LastUpdate = now
               /\ IsPlaceholders(mempoolData')
       /\ watcher.mode = "disabled"
            => /\ watcher'.mode = "disabled" /\ watcher'.pc = "off"
               /\ mempoolData' = mempoolData]_vars

\* C18 witness: time has passed since the disabled start and the buffer
\* still holds what the start wrote
C18_Witness ==
    /\ watcher.mode = "disabled" /\ watcher.pc = "off"
    /\ mempoolData.Source = "ws-disabled"
    /\ IsPlaceholders(mempoolData)
    /\ now >= mempoolData.LastUpdate + 2

---------------------------------------------------------------------------
(* The locking of the shared state (relay.go:155-237, snapshot.go:38-112,  *)
(* beacon.go:52-104, mempool_ws.go:36-198, data_source.go:31-88).          *)
(* A goroutine is inside at most one section at a time; a section is the   *)
(* code between a Lock/RLock and its Unlock/RUnlock, or, where the code    *)
(* takes no lock, the body of the method that touches the fields.          *)

\* the maps and the struct that have a sync.RWMutex of their own
LockedStates ==
    {"relayMemo", "relayFailMemo", "snapshotMemo", "beaconMemo", "mempoolData"}

\* health.go:32-37: the SourceHealth records; BaseDataSource has no mutex
HealthRecords == {"beaconHealth", "relayHealth", "rpcHealth", "mempoolHealth"}

\* relay.go:169-171, 222-224; snapshot.go:80-82; beacon.go:73-75;
\* mempool_ws.go:43-45, 51-53: the lookups, under RLock
ReadSections ==
    {[fn |-> "relayCacheGet", state |-> "relayMemo"],
     [fn |-> "relayFailRecently", state |-> "relayFailMemo"],
     [fn |-> "snapshotCacheGet", state |-> "snapshotMemo"],
     [fn |-> "beaconCacheGet", state |-> "beaconMemo"],
     [fn |-> "handleMempoolWS", state |-> "mempoolData"],
     [fn |-> "GetMempoolData", state |-> "mempoolData"]}

\* relay.go:180-182, 190-192, 214-216, 233-235; snapshot.go:91-93, 106-111;
\* beacon.go:80-82, 97-103; mempool_ws.go:62-79, 128-130, 189-198: the
\* evictions and the stores, under Lock
WriteSections ==
    {[fn |-> "relayCacheGet.delete", state |-> "relayMemo"],
     [fn |-> "relayCacheSet", state |-> "relayMemo"],
     [fn |-> "relayCacheMarkFail", state |-> "relayFailMemo"],
     [fn |-> "relayFailRecently.delete", state |-> "relayFailMemo"],
     [fn |-> "snapshotCacheGet.delete", state |-> "snapshotMemo"],
     [fn |-> "snapshotCacheSet", state |-> "snapshotMemo"],
     [fn |-> "beaconCacheGet.delete", state |-> "beaconMemo"],
     [fn |-> "beaconCacheSet", state |-> "beaconMemo"],
     [fn |-> "startMempoolSubscription", state |-> "mempoolData"],
     [fn |-> "dialAndConsume.unavailable", state |-> "mempoolData"],
     [fn |-> "dialAndConsume.push", state |-> "mempoolData"]}

\* data_source.go:48-88: the methods of a record; none takes a lock
HealthReads == {"GetLastError", "GetLastSuccess", "IsHealthy"}
HealthWrites == {"SetError", "SetSuccess"}

\* every section of the program: what it touches, whether it writes, and
\* the lock call that opens it
Sections ==
    {[fn |-> x.fn, state |-> x.state, kind |-> "read", mode |-> "RLock"] :
        x \in ReadSections}
    \cup
    {[fn |-> x.fn, state |-> x.state, kind |-> "write", mode |-> "Lock"] :
        x \in WriteSections}
    \cup
    {[fn |-> f, state |-> h, kind |-> "read", mode |-> "none"] :
        f \in HealthReads, h \in HealthRecords}
    \cup
    {[fn |-> f, state |-> h, kind |-> "write", mode |-> "none"] :
        f \in HealthWrites, h \in HealthRecords}

\* sync.RWMutex: RLock waits for a writer, Lock waits for everybody; a
\* section that takes no lock waits for nobody
CanEnter(sec) ==
    CASE sec.mode = "RLock" ->
           \A a \in mu : a.sec.state = sec.state => a.sec.mode # "Lock"
      [] sec.mode = "Lock" ->
           \A a \in mu : a.sec.state = sec.state => a.sec.mode = "none"
      [] OTHER -> TRUE

\* goroutine p reaches the lock call (or the first statement) of a section
Enter(p, sec) ==
    /\ \A a \in mu : a.p # p
    /\ CanEnter(sec)
    /\ mu' = mu \cup {[p |-> p, sec |-> sec]}
    /\ ret' = NoRet
    /\ UNCHANGED <<taskVars, now, healthVars, cacheVars, procVars, mempoolVars>>

\* goroutine p reaches the unlock call (or the last statement)
Leave(p) ==
    /\ \E a \in mu : a.p = p
    /\ mu' = {a \in mu : a.p # p}
    /\ ret' = NoRet
    /\ UNCHANGED <<taskVars, now, healthVars, cacheVars, procVars, mempoolVars>>

\* the goroutines: two request handlers and the mempool watcher
Goroutines == Procs \cup {"watcher"}

LocksNext ==
    \/ \E p \in Goroutines, sec \in Sections : Enter(p, sec)
    \/ \E p \in Goroutines : Leave(p)

SpecLocks == Init /\ [][LocksNext]_vars

\* two goroutines are inside sections on the same state and one writes
Overlap(a, b) ==
    /\ a.p # b.p
    /\ a.sec.state = b.sec.state
    /\ "write" \in {a.sec.kind, b.sec.kind}

\* C19: every access to the cache maps, the mempool buffer and the
\* SourceHealth records is made under the state's lock, so that under any
\* interleaving no write overlaps another write or a read of the same
\* state.
C19_NoWriteOverlapsAnAccess ==
    \A a \in mu : \A b \in mu : ~Overlap(a, b)

---------------------------------------------------------------------------
(* The time budget of relayGET (relay.go:76-100).                          *)

\* goroutine p sends a request to the next candidate
AttemptStarts(p) == pc[p] = "loop" /\ pc'[p] = "request"

\* the time since the iteration of p's call began
Elapsed(p) == now - local[p].started

\* C20: within one relayGET call a request is sent only while the time
\* since the iteration began does not exceed the budget; once it does, the
\* loop stops although candidates remain. A request in flight is not ended
\* by the budget: it ends with the candidate's own answer or failure, and a
\* body that arrives after the budget expired is still stored and taken.
C20_BudgetStopsStartsNotAttempts ==
    [][\A p \in Procs :
          /\ AttemptStarts(p)
                => /\ Elapsed(p) <= relayBudget
                   /\ local[p].idx <= Len(relayBases)
                   /\ Len(local'[p].attempts) = Len(local[p].attempts) + 1
          /\ (pc[p] = "loop" /\ Steps(p) /\ Elapsed(p) > relayBudget)
                => /\ pc'[p] = "markFail"
                   /\ local'[p] = local[p]
          /\ (pc[p] = "request" /\ Steps(p))
                => LET a == local'[p].attempts
                   IN  /\ Len(a) = Len(local[p].attempts)
                       /\ a[Len(a)].result \in Outcomes
                       /\ pc'[p] \in {"loop", "reread"}
                       /\ a[Len(a)].result \in Bodies
                             => /\ local'[p].answer = a[Len(a)].result
                                /\ memo'["relay"][local[p].path].body
                                      = a[Len(a)].result
          /\ (pc[p] = "request" /\ ~Steps(p)) => pc'[p] = "request"
      ]_vars

\* C20 witness: a request sent within the budget failed on its own after the
\* budget had expired, and the loop has stopped with candidates untried
C20_Witness ==
    \E p \in Procs :
        /\ pc[p] = "markFail"
        /\ local[p].idx <= Len(relayBases)
        /\ Len(local[p].attempts) >= 1
        /\ local[p].attempts[Len(local[p].attempts)].result \in RequestFailures
        /\ local[p].reqStart - local[p].started <= relayBudget
        /\ now - local[p].started > relayBudget


---------------------------------------------------------------------------
(* relayGET with the health records in place (relay.go:123-143).           *)

\* the program after initHealthSources has run: relayHealth points to a new
\* record, the caches are empty
InitRelayHealth ==
    /\ now = StartTime
    /\ health = [s \in Sources |-> NewBaseDataSource]
    /\ sourcesReady = TRUE
    /\ event = [op |-> "none"]
    /\ memo = [c \in Caches |-> EmptyMap]
    /\ lastSet = [c \in Caches |-> EmptyMap]
    /\ pc = [p \in Procs |-> "idle"]
    /\ local = [p \in Procs |-> NoLocal]
    /\ ret = NoRet
    /\ mempoolData = [PendingTxs |-> <<>>, Count |-> 0, LastUpdate |-> 0,
                      Source |-> "ws"]
    /\ resolved = <<>>
    /\ watcher = NewWatcher
    /\ heap = [id \in ArrayIds |-> <<>>]
    /\ backing = 1
    /\ mempoolMutex = [writer |-> FALSE, readers |-> {}]
    /\ held = NoRet
    /\ tasks = [p \in Procs |-> NoTasks]
    /\ builds = 0
    /\ mu = NoAccess

SpecRelayHealth == InitRelayHealth /\ [][RelayNext]_vars

---------------------------------------------------------------------------
(* The order of lock calls inside each operation (relay.go:61-239,         *)
(* beacon.go:17-104, snapshot.go:76-355, mempool_ws.go:41-204,             *)
(* health.go:97-113).  An operation is the sequence of its lock calls,     *)
(* unlock calls and network calls, in program order.                       *)

\* the section of function fn on a state
Section(fn, state) ==
    CHOOSE sec \in Sections : sec.fn = fn /\ sec.state = state

\* a critical section: the lock call and the unlock call that closes it
Under(fn, state) ==
    << [do |-> "enter", sec |-> Section(fn, state)],
       [do |-> "leave", sec |-> Section(fn, state)] >>

\* an HTTP request, a websocket read or a wait on a channel
Network == << [do |-> "net"] >>

\* a lookup that deletes the stale entry before releasing the read lock
relayCacheGetSteps_DeleteUnderRLock ==
    << [do |-> "enter", sec |-> Section("relayCacheGet", "relayMemo")],
       [do |-> "enter", sec |-> Section("relayCacheGet.delete", "relayMemo")],
       [do |-> "leave", sec |-> Section("relayCacheGet.delete", "relayMemo")],
       [do |-> "leave", sec |-> Section("relayCacheGet", "relayMemo")] >>

\* relay.go:167-186: RLock, lookup, RUnlock; then Lock, delete, Unlock
relayCacheGetSteps ==
    Under("relayCacheGet", "relayMemo")
       \o Under("relayCacheGet.delete", "relayMemo")

\* relay.go:220-239
relayFailRecentlySteps ==
    Under("relayFailRecently", "relayFailMemo")
       \o Under("relayFailRecently.delete", "relayFailMemo")

\* relay.go:61-131: stale entries evicted, a candidate answers, the body is
\* stored and read back
relayGETOkSteps ==
    relayFailRecentlySteps \o relayCacheGetSteps \o Network
       \o Under("relayCacheSet", "relayMemo")
       \o Under("relayCacheGet", "relayMemo")
       \o Under("SetSuccess", "relayHealth")

\* relay.go:61-143: a candidate fails, the re-read misses, the path is marked
relayGETFailSteps ==
    relayFailRecentlySteps \o relayCacheGetSteps \o Network
       \o Under("relayCacheGet", "relayMemo")
       \o Under("relayCacheMarkFail", "relayFailMemo")
       \o Under("SetError", "relayHealth")

\* beacon.go:17-42 with beaconCacheGet and beaconCacheSet
beaconGETSteps ==
    Under("beaconCacheGet", "beaconMemo")
       \o Under("beaconCacheGet.delete", "beaconMemo")
       \o Network
       \o Under("beaconCacheSet", "beaconMemo")
       \o Under("SetSuccess", "beaconHealth")

\* snapshot.go:151-352: cache lookup, mempool copy, the wait for the fetch
\* goroutines, the store
handleSnapshotSteps ==
    Under("snapshotCacheGet", "snapshotMemo")
       \o Under("snapshotCacheGet.delete", "snapshotMemo")
       \o Under("GetMempoolData", "mempoolData")
       \o Network
       \o Under("snapshotCacheSet", "snapshotMemo")

\* mempool_ws.go:119-133: the dial fails
dialFailedSteps ==
    Network \o Under("dialAndConsume.unavailable", "mempoolData")

\* mempool_ws.go:155-198: a notification is read, the transaction is
\* resolved by rpcCall, the buffer is updated
notificationSteps ==
    Network \o Network \o Under("SetSuccess", "rpcHealth")
       \o Under("dialAndConsume.push", "mempoolData")

\* health.go:97-113: checkMempoolHealth
checkMempoolHealthSteps ==
    Under("GetMempoolData", "mempoolData")
       \o Under("SetSuccess", "mempoolHealth")

\* the operations goroutines run
Operations ==
    {relayGETOkSteps, relayGETFailSteps, beaconGETSteps, handleSnapshotSteps,
     dialFailedSteps, notificationSteps, checkMempoolHealthSteps,
     Under("startMempoolSubscription", "mempoolData"),
     Under("handleMempoolWS", "mempoolData")}


\* the step goroutine p is about to take
NextStep(p) == local[p].steps[local[p].i]

Running(p) == pc[p] = "run" /\ local[p].i <= Len(local[p].steps)

\* goroutine p starts an operation
Call(p, steps) ==
    /\ pc[p] = "idle"
    /\ pc' = [pc EXCEPT ![p] = "run"]
    /\ local' = [local EXCEPT ![p] = [op |-> "locks", steps |-> steps, i |-> 1]]
    /\ ret' = NoRet
    /\ UNCHANGED <<taskVars, mu, now, healthVars, cacheVars, mempoolVars>>

\* Lock or RLock returns (or an unguarded method body begins)
Acquire(p) ==
    /\ Running(p) /\ NextStep(p).do = "enter"
    /\ CanEnter(NextStep(p).sec)
    /\ mu' = mu \cup {[p |-> p, sec |-> NextStep(p).sec]}
    /\ local' = [local EXCEPT ![p].i = @ + 1]
    /\ ret' = NoRet
    /\ UNCHANGED <<taskVars, now, healthVars, cacheVars, pc, mempoolVars>>

\* Unlock or RUnlock
Release(p) ==
    /\ Running(p) /\ NextStep(p).do = "leave"
    /\ mu' = mu \ {[p |-> p, sec |-> NextStep(p).sec]}
    /\ local' = [local EXCEPT ![p].i = @ + 1]
    /\ ret' = NoRet
    /\ UNCHANGED <<taskVars, now, healthVars, cacheVars, pc, mempoolVars>>

\* the network call returns
NetworkCall(p) ==
    /\ Running(p) /\ NextStep(p).do = "net"
    /\ local' = [local EXCEPT ![p].i = @ + 1]
    /\ ret' = NoRet
    /\ UNCHANGED <<taskVars, mu, now, healthVars, cacheVars, pc, mempoolVars>>

\* the operation returns
Return(p) ==
    /\ pc[p] = "run" /\ local[p].i > Len(local[p].steps)
    /\ pc' = [pc EXCEPT ![p] = "idle"]
    /\ local' = [local EXCEPT ![p] = NoLocal]
    /\ ret' = NoRet
    /\ UNCHANGED <<taskVars, mu, now, healthVars, cacheVars, mempoolVars>>

LockOrderNext ==
    \/ \E p \in Procs, steps \in Operations : Call(p, steps)
    \/ \E p \in Procs : Acquire(p)
    \/ \E p \in Procs : Release(p)
    \/ \E p \in Procs : NetworkCall(p)
    \/ \E p \in Procs : Return(p)

SpecLockOrder == Init /\ [][LockOrderNext]_vars

\* the locks goroutine p holds
LocksHeld(p) == {a \in mu : a.p = p /\ a.sec.mode # "none"}

\* goroutine p can take its next step
CanStep(p) ==
    Running(p) /\ NextStep(p).do = "enter" => CanEnter(NextStep(p).sec)

\* C22: a goroutine holds at most one lock at any time, holds none while it
\* is in a network call, and a goroutine that holds a lock is never made to
\* wait: so whenever operations are unfinished some goroutine can step, and
\* no interleaving deadlocks.
C22_OneLockAtATime ==
    /\ \A p \in Procs :
          /\ Cardinality(LocksHeld(p)) <= 1
          /\ (Running(p) /\ NextStep(p).do = "net") => LocksHeld(p) = {}
          /\ LocksHeld(p) # {} => CanStep(p)
          /\ pc[p] = "idle" => LocksHeld(p) = {}
    /\ (\E p \in Procs : pc[p] = "run") => \E p \in Procs : CanStep(p)

\* C22 witness: one goroutine holds the write lock of the relay cache while
\* the other waits for it, holding nothing
C22_Witness ==
    \E p \in Procs, q \in Procs :
        /\ LocksHeld(p) # {}
        /\ \A a \in LocksHeld(p) : a.sec.mode = "Lock"
        /\ Running(q) /\ ~CanStep(q) /\ LocksHeld(q) = {}


---------------------------------------------------------------------------
(* The reconnect delay of the push watcher (mempool_ws.go:86-114).         *)

\* the smaller of two durations
MinOf(a, b) == IF a < b THEN a ELSE b

\* C23: in push mode, after k sessions in a row have failed, the delay the
\* loop sleeps before the next dial is min(base * 2^k, ceiling); it never
\* exceeds the ceiling.
C23_BackoffDoublesToCeiling ==
    (watcher.mode = "push" /\ watcher.pc = "sleep")
        => /\ watcher.backoff <= maxBackoff
           /\ watcher.failures >= 1
           /\ watcher.failures < MaxFailures
                 => watcher.backoff
                       = MinOf(backoffBase * 2 ^ watcher.failures, maxBackoff)

\* C23 witness: the doubling has passed the ceiling and the watcher sleeps
\* the ceiling
C23_Witness ==
    /\ watcher.mode = "push" /\ watcher.pc = "sleep"
    /\ watcher.failures < MaxFailures
    /\ backoffBase * 2 ^ watcher.failures > maxBackoff
    /\ watcher.backoff = maxBackoff


\* C24: in push mode a session that connected, subscribed and put at least
\* one transaction in the buffer before it ended is followed by a sleep of
\* the base delay.
C24_HealthySessionResetsBackoff ==
    [][(/\ watcher.mode = "push"
        /\ watcher.delivered
        /\ watcher.pc # "sleep" /\ watcher'.pc = "sleep")
          => watcher'.backoff = backoffBase]_vars


---------------------------------------------------------------------------
(* The modes of the watcher (mempool_ws.go:59-116, part_012:62-91).        *)

\* C25: the mode is fixed by the start and never changes afterwards; it is
\* disabled, push or poll, and a watcher that is not disabled has a task
\* running (the session loop or the poller) that updates the buffer.
C25_ModeFixedAndTaskRuns ==
    [][/\ watcher.mode # "none" => watcher'.mode = watcher.mode
       /\ watcher'.mode # "none"
             => /\ watcher'.mode \in {"disabled", "push", "poll"}
                /\ watcher'.mode # "disabled" => watcher'.pc # "off"]_vars


---------------------------------------------------------------------------
(* Poll mode (part_012:96-166).                                            *)

\* the buffer holds exactly the first min(10, size) transactions of block,
\* in block order, all stamped with lastUpdate
HoldsBlock(data, block) ==
    /\ Len(data.PendingTxs) = MinOf(MempoolKeep, Len(block))
    /\ \A i \in 1..Len(data.PendingTxs) :
          /\ data.PendingTxs[i].Hash = block[i]
          /\ data.PendingTxs[i].Timestamp = data.LastUpdate
    /\ data.Count = Len(data.PendingTxs)
    /\ data.Source = "http-polling"

\* C26: in poll mode a round either leaves buffer, count, lastUpdate and
\* source label as they are and goes on polling, or starts the write of a
\* non-empty pending block; when that write is complete the buffer is
\* exactly the first min(10, size) transactions of the block, in block
\* order, stamped with the time of the round, and the poller polls again.
C26_PollReplacesBuffer ==
    [][watcher.mode = "poll"
         => /\ watcher.pc = "poll"
                  => \/ watcher'.pc = "poll" /\ mempoolData' = mempoolData
                     \/ /\ watcher'.pc = "lock" /\ watcher'.after = "poll"
                        /\ mempoolData' = mempoolData
                        /\ \E b \in PendingBlocks \ {<< >>} :
                              /\ HoldsBlock(Run(mempoolData, watcher'.todo), b)
                              /\ Run(mempoolData, watcher'.todo).LastUpdate
                                    = now
            /\ (watcher.pc = "write" /\ watcher'.pc # "write")
                  => /\ watcher'.pc = "poll"
                     /\ \E b \in PendingBlocks \ {<< >>} :
                           HoldsBlock(mempoolData', b)
            /\ watcher'.pc \in {"poll", "lock", "write"}]_vars

\* C26 witness: a block of two transactions is in the buffer and the round
\* that follows a block of eleven has just replaced it by that block's first
\* ten
C26_Witness ==
    /\ watcher.mode = "poll" /\ watcher.pc = "poll"
    /\ Len(mempoolData.PendingTxs) = MempoolKeep
    /\ mempoolData.PendingTxs[1].Hash = 201
    /\ Len(heap[backing]) = MempoolKeep
    /\ \E id \in ArrayIds : Len(heap[id]) = 2


---------------------------------------------------------------------------
(* The fetch goroutines of a snapshot that the compositor stops waiting    *)
(* for (part_011 170-267).  Here they stay in the state after the wait has *)
(* ended, and each request is served by a goroutine of its own, as         *)
(* net/http does.                                                          *)

\* the goroutine p has served no request that fanned out
Unused(p) == tasks[p] = NoTasks

\* lines 269-330 with the fetch goroutines as they are when the wait ends
AssembleDetached(p) == Assembled(p, tasks[p])

\* lines 339-354 with the fetch goroutines as they are
RespondDetached(p) == Responded(p, tasks[p])

AbandonNext ==
    \/ \E p \in Handlers, l \in Limits, b \in BlockTags :
            Solo(p) /\ Unused(p) /\ handleSnapshot(p, l, FALSE, b)
    \/ \E p \in Procs, f \in FetchNames : \E v \in FetchValues(f) :
            TaskDone(p, f, v)
    \/ \E p \in Procs, f \in FetchNames : WaitReceive(p, f)
    \/ \E p \in Procs : WaitTimeout(p)
    \/ \E p \in Procs : AssembleDetached(p)
    \/ \E p \in Procs : RespondDetached(p)
    \/ SnapTick

\* relayGET returns within its budget and the request timeout of its client
\* (relay.go 39-45, 55), beaconGET within the timeout of its client
\* (part_005 87), and what follows them in a fetch goroutine is a decode and
\* the send: a goroutine that runs reaches its send
FetchesReturn ==
    \A p \in Procs, f \in FetchNames :
        WF_vars(\E v \in FetchValues(f) : TaskDone(p, f, v))

SpecAbandon == Init /\ [][AbandonNext]_vars /\ FetchesReturn

\* the goroutine of fetch f of p has sent its value and ended
Ended(p, f) == tasks[p][f].state \in {"sent", "received"}

\* the wait of p is over: the four channels are read no more
WaitOver(p) == pc[p] # "wait"

\* C27: a fetch goroutine is never blocked at its send and every one that
\* runs ends, whether or not the compositor still waits; it delivers one
\* value into its own channel (the value stays what was sent and there is
\* no second send); and a value that was not received when the wait ended
\* is never received: the value the compositor holds for that fetch stays
\* nil and the response shows the fetch as an empty list or no field.
C27_AbandonedTaskEndsUnread ==
    /\ [](\A p \in Procs, f \in FetchNames : tasks[p][f].state # "blocked")
    /\ \A p \in Procs, f \in FetchNames :
            (tasks[p][f].state = "running") ~> Ended(p, f)
    /\ [][\A p \in Procs, f \in FetchNames :
            /\ Ended(p, f)
                => /\ Ended(p, f)'
                   /\ tasks'[p][f].value = tasks[p][f].value
            /\ (tasks[p][f].state = "running" /\ Ended(p, f)')
                => /\ tasks'[p][f].state = "sent"
                   /\ \A g \in FetchNames \ {f} : tasks'[p][g] = tasks[p][g]
            /\ (WaitOver(p) /\ tasks[p][f].state # "received")
                => /\ tasks'[p][f].state # "received"
                   /\ local[p] # NoLocal => local[p].val[f] = "nil"
                   /\ SnapshotBuilt(p)
                        => Field(ret'.body.data, f) = Shown(f, "nil")]_vars

\* C27 witness: the request was answered at the deadline without the
\* delivered-payloads fetch, whose goroutine sent data afterwards and ended
C27_Witness ==
    \E p \in Procs :
        /\ pc[p] = "idle"
        /\ tasks[p]["del"] = [state |-> "sent", value |-> "data", late |-> TRUE]
        /\ tasks[p]["rec"].state = "received"
        /\ memo["snapshot"] # EmptyMap
        /\ \E k \in DOMAIN memo["snapshot"] :
            memo["snapshot"][k].body.data.relays.delivered = "empty"


---------------------------------------------------------------------------
(* The cache operations called by goroutines that run at the same time:    *)
(* the lookup of a get and its eviction are two critical sections          *)
(* (relay.go 167-186, part_011 76-97, part_005 71-85), and another         *)
(* goroutine's set can run between them.                                   *)

\* the key the goroutines contend for
RacedKeys == {"k1"}

CacheRaceNext ==
    \/ \E p \in Procs, k \in RacedKeys : snapshotCacheGet(p, k)
    \/ \E p \in Procs, k \in RacedKeys : beaconCacheGet(p, k)
    \/ \E p \in Procs : CacheEvict(p)
    \/ \E p \in Procs, k \in RacedKeys, b \in Bodies :
            snapshotCacheSet(p, k, b)
    \/ \E p \in Procs, k \in RacedKeys, b \in Bodies, st \in Statuses :
            beaconCacheSet(p, k, b, st)
    \/ CacheTick

SpecCacheRace == Init /\ [][CacheRaceNext]_vars

\* C33: a get removes an entry only if the entry it removes has expired,
\* also when a set of the same key ran between its lookup and its
\* eviction; so a get of a key returns found as long as the last set of
\* the key is less than its TTL old.
C33_GetRemovesOnlyExpired ==
    [][\A c \in Caches, k \in Keys :
        /\ (k \in DOMAIN memo[c] /\ k \notin DOMAIN memo'[c])
            => now >= memo[c][k].expires
        /\ (/\ GetReturns(c, k)
            /\ k \in DOMAIN lastSet[c]
            /\ ret'.at - lastSet[c][k].at < lastSet[c][k].ttl)
            => ret'.found]_vars


---------------------------------------------------------------------------
(* relayGET called by requests that run at the same time, for one path.    *)

\* the clock of these runs stops here
MaxRaceTime == 4

\* what a candidate does with a request in these runs
RaceOutcomes == {"transportError", "non2xx", "b1"}

RelayRaceTick ==
    /\ \A p \in Procs : Suspended(p) /\ InTime(p)
    /\ Tick(MaxRaceTime)
    /\ ret' = NoRet
    /\ UNCHANGED <<taskVars, mu, healthVars, cacheVars, procVars, mempoolVars>>

\* Every request can be built.  The re-read sees no stale entry: an entry
\* lives relayTTL, longer than a call can last after its first lookup, so
\* RelayRereadEvict has no step to take.
RelayRaceNext ==
    \/ \E p \in Procs, path \in RacedKeys : relayGET(p, path)
    \/ \E p \in Procs : RelayFailEvict(p)
    \/ \E p \in Procs : RelayCacheGet(p)
    \/ \E p \in Procs : RelayCacheEvict(p)
    \/ \E p \in Procs : RelayLoop(p, TRUE)
    \/ \E p \in Procs, outcome \in RaceOutcomes : RelayResponse(p, outcome)
    \/ \E p \in Procs : RelayReread(p)
    \/ \E p \in Procs : RelayMarkFail(p)
    \/ RelayRaceTick

\* the positive cache is empty or holds the body of an earlier call, stored
\* relayTTL before the run starts
InitRelayRace ==
    /\ now = StartTime
    /\ health = [s \in Sources |-> NewBaseDataSource]
    /\ sourcesReady = FALSE
    /\ event = [op |-> "none"]
    /\ \E paths \in SUBSET RacedKeys :
            memo = [c \in Caches |->
                      IF c = "relay"
                      THEN [k \in paths |-> [body |-> "b2", expires |-> now]]
                      ELSE EmptyMap]
    /\ lastSet = [c \in Caches |-> EmptyMap]
    /\ pc = [p \in Procs |-> "idle"]
    /\ local = [p \in Procs |-> NoLocal]
    /\ ret = NoRet
    /\ mempoolData = [PendingTxs |-> <<>>, Count |-> 0, LastUpdate |-> 0,
                      Source |-> "ws"]
    /\ resolved = <<>>
    /\ watcher = NewWatcher
    /\ heap = [id \in ArrayIds |-> <<>>]
    /\ backing = 1
    /\ mempoolMutex = [writer |-> FALSE, readers |-> {}]
    /\ held = NoRet
    /\ tasks = [p \in Procs |-> NoTasks]
    /\ builds = 0
    /\ mu = NoAccess

SpecRelayRace == InitRelayRace /\ [][RelayRaceNext]_vars


\* C34: when a candidate has answered a call with a non-empty 2xx body, the
\* next step of the call returns success with the requests sent so far: the
\* re-read of the positive cache finds an entry and no further candidate is
\* tried, whatever other calls for the path do in between.
C34_AnswerEndsTheCall ==
    [][\A p \in Procs :
        (pc[p] = "reread" /\ Steps(p) /\ local[p].answer # Nil)
        => /\ CallReturns(p, "ok")
           /\ ret'.attempts = local[p].attempts]_vars


\* C35: no path has an unexpired entry in the positive cache and an
\* unexpired entry in the negative cache at the same time, so a call for a
\* path whose body is cached and fresh is not refused with the backoff
\* error.
C35_NeverBothCachesFresh ==
    /\ \A path \in Paths : ~(PositiveFresh(path) /\ NegativeFresh(path))
    /\ (ret.op = "relayGET" /\ ret.kind = "backoff")
            => ~PositiveFresh(ret.path)


---------------------------------------------------------------------------
(* beaconGET (part_005 17-42) and two of its callers: the finality         *)
(* goroutine of handleSnapshot (part_011 236-242, 282-294) and             *)
(* checkBeaconHealth (health.go 47-61).  Calls one at a time; the health   *)
(* records exist.                                                          *)

\* the paths the two callers ask for
FinalityPath == "/eth/v1/beacon/states/finalized/finality_checkpoints"
HeadersPath  == "/eth/v1/beacon/headers?limit=1"

\* the bodies a consensus API answers with: JSON (the data, or with an
\* error status the error object), bytes that are no JSON, and no bytes
BeaconBodies == {"data", "malformed", "empty"}

\* what the consensus API does with a request: the client returns an error,
\* or a response with a status and a body
BeaconAnswers ==
    {[err |-> "transportError", status |-> 0, body |-> "nil"]}
    \cup {[err |-> Nil, status |-> st, body |-> b] :
            st \in Statuses, b \in BeaconBodies}

\* the locals of a beaconGET call and of its caller
BeaconLocal(caller, path) ==
    [op |-> "beaconGET", caller |-> caller, path |-> path,
     cache |-> "beacon", key |-> path, at |-> now,
     result |-> [err |-> Nil, status |-> 0, body |-> "nil"],
     cached |-> FALSE]

\* part_005 17-20 with beaconCacheGet's lookup (71-78)
beaconGET(p, caller, path) ==
    /\ pc[p] = "idle"
    /\ CASE Lookup("beacon", path) = "hit" ->
              /\ pc' = [pc EXCEPT ![p] = caller]
              /\ local' = [local EXCEPT ![p] =
                    [BeaconLocal(caller, path) EXCEPT
                        !.result = [err |-> Nil,
                                    status |-> memo["beacon"][path].status,
                                    body |-> memo["beacon"][path].body],
                        !.cached = TRUE]]
         [] Lookup("beacon", path) = "stale" ->
              /\ pc' = [pc EXCEPT ![p] = "beaconEvict"]
              /\ local' = [local EXCEPT ![p] = BeaconLocal(caller, path)]
         [] OTHER ->
              /\ pc' = [pc EXCEPT ![p] = "beaconRequest"]
              /\ local' = [local EXCEPT ![p] = BeaconLocal(caller, path)]
    /\ ret' = NoRet
    /\ UNCHANGED <<taskVars, mu, now, healthVars, cacheVars, mempoolVars>>

\* part_005 79-83: beaconCacheGet deletes the stale entry
BeaconEvict(p) ==
    /\ pc[p] = "beaconEvict"
    /\ memo' = Evicted("beacon", local[p].path)
    /\ pc' = [pc EXCEPT ![p] = "beaconRequest"]
    /\ ret' = NoRet
    /\ UNCHANGED <<taskVars, mu, now, healthVars, lastSet, local, mempoolVars>>

\* part_005 21-41: the request ends; a response is stored with its status
\* whatever the status is, and the health record is updated
BeaconResponse(p, answer) ==
    LET e == [body |-> answer.body, status |-> answer.status,
              expires |-> ZeroTime] IN
    /\ pc[p] = "beaconRequest"
    /\ IF answer.err # Nil
       THEN /\ ErrorOn("beacon", answer.err)
            /\ UNCHANGED <<memo, lastSet>>
       ELSE /\ memo' = Stored("beacon", local[p].path, e,
                              BeaconTTL(answer.status))
            /\ lastSet' = Noted("beacon", local[p].path, e,
                                BeaconTTL(answer.status))
            /\ IF Is2xx(answer.status)
               THEN SuccessOn("beacon")
               ELSE ErrorOn("beacon", "HTTP status")
    /\ local' = [local EXCEPT ![p].result = answer]
    /\ pc' = [pc EXCEPT ![p] = local[p].caller]
    /\ ret' = NoRet
    /\ UNCHANGED <<taskVars, mu, now, sourcesReady, mempoolVars>>

\* part_011 237-241: `if raw, _, err := beaconGET(...); err == nil && raw !=
\* nil { out = raw }`; the status is not looked at
FinalityOut(result) ==
    IF result.err = Nil /\ result.body # "nil" THEN result.body ELSE "nil"

\* the bytes of FetchValues a body stands for: bytes that decode, bytes
\* that do not, and no byte at all, which is a slice of length 0
AsFetchValue(out) == IF out = "empty" THEN "nil" ELSE out

\* part_011 236-242 and 282-303: the finality goroutine sends what
\* beaconGET gave it and the response is assembled from it
FinalityFetched(p) ==
    LET out == FinalityOut(local[p].result)
        loc == [SnapLocal(10, FALSE, "latest") EXCEPT
                    !.val["fin"] = AsFetchValue(out)] IN
    /\ pc[p] = "finality"
    /\ ret' = [op |-> "finality", proc |-> p, result |-> local[p].result,
               cached |-> local[p].cached, out |-> out,
               response |-> Response(loc)]
    /\ pc' = [pc EXCEPT ![p] = "idle"]
    /\ local' = [local EXCEPT ![p] = NoLocal]
    /\ UNCHANGED <<taskVars, mu, now, healthVars, cacheVars, mempoolVars>>

\* health.go 50-53: SetError(err), then SetSuccess() if err == nil and the
\* status is 2xx
CheckedBeacon(b, result) ==
    IF result.err = Nil /\ Is2xx(result.status)
    THEN AfterSetSuccess(AfterSetError(b, result.err))
    ELSE AfterSetError(b, result.err)

\* health.go 47-61: checkBeaconHealth after its beaconGET
checkBeaconHealth(p) ==
    LET b == CheckedBeacon(health["beacon"], local[p].result) IN
    /\ pc[p] = "checkBeaconHealth"
    /\ health' = [health EXCEPT !["beacon"] = b]
    /\ event' = [op |-> IF b.lastSuccess = now /\ b.lastError = Nil
                           /\ Is2xx(local[p].result.status)
                        THEN "SetSuccess" ELSE "SetError",
                 src |-> "beacon", at |-> now,
                 priorSuccess |-> health["beacon"].lastSuccess,
                 priorError |-> health["beacon"].lastError]
    /\ ret' = [op |-> "checkBeaconHealth", proc |-> p,
               result |-> local[p].result, cached |-> local[p].cached,
               Healthy |-> IsHealthy(b), LastSuccess |-> b.lastSuccess,
               LastError |-> b.lastError]
    /\ pc' = [pc EXCEPT ![p] = "idle"]
    /\ local' = [local EXCEPT ![p] = NoLocal]
    /\ UNCHANGED <<taskVars, mu, now, sourcesReady, cacheVars, mempoolVars>>

BeaconNext ==
    \/ \E p \in Procs : Solo(p) /\ beaconGET(p, "finality", FinalityPath)
    \/ \E p \in Procs :
            Solo(p) /\ beaconGET(p, "checkBeaconHealth", HeadersPath)
    \/ \E p \in Procs : BeaconEvict(p)
    \/ \E p \in Procs, answer \in BeaconAnswers : BeaconResponse(p, answer)
    \/ \E p \in Procs : FinalityFetched(p)
    \/ \E p \in Procs : checkBeaconHealth(p)
    \/ CacheTick

SpecBeacon == InitRelayHealth /\ [][BeaconNext]_vars

\* C36: the snapshot shows finality data only when the consensus API
\* answered the finality fetch, fresh or from the consensus cache, with a
\* 2xx status.
C36_FinalityOnlyFrom2xx ==
    ret.op = "finality"
    => (ret.response.beacon.finality # "absent"
            => ret.result.err = Nil /\ Is2xx(ret.result.status))


\* C37: checkBeaconHealth reports healthy only if the response it got from
\* beaconGET, fresh or cached, had a 2xx status; after a transport error or
\* a response with another status it reports not healthy, and IsHealthy()
\* of the record is false after the SetError of the failed check.
C37_HealthyOnlyAfter2xx ==
    ret.op = "checkBeaconHealth"
    => /\ ret.Healthy => (ret.result.err = Nil /\ Is2xx(ret.result.status))
       /\ ~(ret.result.err = Nil /\ Is2xx(ret.result.status))
            => /\ ~ret.Healthy
               /\ event.op = "SetError"
               /\ ~IsHealthy(health["beacon"])

---------------------------------------------------------------------------
(* Termination of relayGET (relay.go:61-143).  The goroutine of a call is  *)
(* scheduled again and again, and a request in flight ends: by a response  *)
(* or, at the latest, by the timeout of relayHTTPClient (relay.go:39-46).  *)

\* goroutine p takes the next step of its call
RelayProgress(p) ==
    \/ RelayFailEvict(p)
    \/ RelayCacheGet(p)
    \/ RelayCacheEvict(p)
    \/ \E built \in BOOLEAN : RelayLoop(p, built)
    \/ \E outcome \in Outcomes : RelayResponse(p, outcome)
    \/ RelayReread(p)
    \/ RelayMarkFail(p)

SpecRelayLive ==
    InitRelay /\ [][RelayNext]_vars /\ \A p \in Procs : WF_vars(RelayProgress(p))

\* the requests sent went to configured candidates, in the order of the
\* list, each to another candidate than the ones before, and to none whose
\* request could not be built
OncePerCandidate(attempts, skipped) ==
    /\ Len(attempts) <= Len(relayBases)
    /\ \A i \in 1..Len(attempts) :
          /\ attempts[i].base \in 1..Len(relayBases)
          /\ attempts[i].base \notin skipped
          /\ \A j \in 1..Len(attempts) :
                i < j => attempts[i].base < attempts[j].base

\* the calls in progress and the call that has just returned
AttemptsOncePerCandidate ==
    /\ \A p \in Procs :
          local[p].op = "relayGET"
          => OncePerCandidate(local[p].attempts, local[p].skipped)
    /\ ret.op = "relayGET" => OncePerCandidate(ret.attempts, ret.skipped)

\* C40: every relayGET call terminates: it sends a request to each
\* configured candidate at most once, never goes back to a candidate,
\* sends at most as many requests as there are candidates, and, each
\* request ending by a response or the client timeout, returns.
C40_RelayGETTerminates ==
    /\ []AttemptsOncePerCandidate
    /\ \A p \in Procs : (pc[p] # "idle") ~> (pc[p] = "idle")

\* C40 witness: a call returned after one request to each of the
\* candidates, the last of which answered with a body
C40_Witness ==
    /\ ret.op = "relayGET"
    /\ ret.kind = "ok"
    /\ Len(ret.attempts) = Len(relayBases)
    /\ \A i \in 1..Len(relayBases) : ret.attempts[i].base = i
    /\ ret.attempts[1].result = "transportError"
    /\ ret.attempts[2].result = "empty"

=============================================================================
